---- MODULE Spec2Model ----
(***************************************************************************)
(* A model of the carrier-integration library.                             *)
(*                                                                         *)
(* Part 1, the orchestrator (src/src/service.ts): the adapter registry,    *)
(* getRates (schema validation, parallel dispatch with                     *)
(* Promise.allSettled, aggregation, the catch clause) and                  *)
(* getRatesFromCarrier.                                                    *)
(* Adapters are arbitrary implementations of ICarrier: each invocation     *)
(* either throws synchronously or returns a promise that later fulfils or  *)
(* rejects with a value drawn from a small pool.                           *)
(*                                                                         *)
(* Strings whose content is never inspected are modelled by their length   *)
(* (the schema and the adapter's local validation read only the length).   *)
(* Address.street2 is optional and unconstrained and is left out.          *)
(***************************************************************************)
EXTENDS Integers, Sequences, FiniteSets, TLC

(***************************************************************************)
(* Bounds                                                                  *)
(***************************************************************************)
NumAdapters == 3
MaxQuotes == 2

(***************************************************************************)
(* Values                                                                  *)
(***************************************************************************)
\* an optional field that is not set (undefined)
Absent == "Absent"

\* the names adapter instances carry; adapters NumNames+1.. reuse the names
CarrierNames == <<"ups", "fedex">>
Adapters == 1..NumAdapters

\* ICarrier.name of adapter instance a
NameOf(a) == CarrierNames[((a - 1) % Len(CarrierNames)) + 1]

\* enum ServiceLevel
ServiceLevel == {"OVERNIGHT", "TWO_DAY", "GROUND", "EXPRESS", "ECONOMY"}

\* enum ErrorCode
ErrorCode ==
  {"INVALID_REQUEST", "INVALID_ADDRESS", "INVALID_PACKAGE",
   "AUTH_FAILED", "INVALID_CREDENTIALS", "TOKEN_EXPIRED",
   "NETWORK_ERROR", "TIMEOUT", "CONNECTION_REFUSED",
   "HTTP_400", "HTTP_401", "HTTP_403", "HTTP_404", "HTTP_429",
   "HTTP_500", "HTTP_502", "HTTP_503", "HTTP_UNKNOWN",
   "INVALID_RESPONSE", "MALFORMED_JSON",
   "SERVICE_UNAVAILABLE", "RATE_LIMIT_EXCEEDED", "UNKNOWN"}

\* new CarrierIntegrationError(code, message, {details})
CarrierIntegrationError(code, message, details) ==
  [kind |-> "CarrierIntegrationError", code |-> code, message |-> message,
   details |-> details]

\* CarrierIntegrationError.toCarrierError()
toCarrierError(e) ==
  [code |-> e.code, message |-> e.message, details |-> e.details]

\* other values a callee can throw: a ZodError, a plain Error (a TypeError
\* included), and a value that is no Error at all
NativeError(kind, message) ==
  [kind |-> kind, code |-> Absent, message |-> message, details |-> Absent]
ZodError == NativeError("ZodError", "zod issues")
PlainError == NativeError("Error", "adapter failure")
TypeError == NativeError("Error", "not iterable")
NonError == NativeError("NonError", Absent)

IsCarrierIntegrationError(e) == e.kind = "CarrierIntegrationError"
\* error instanceof Error (every modelled kind but the thrown non-Error)
IsError(e) == e.kind # "NonError"

(***************************************************************************)
(* Requests                                                                *)
(***************************************************************************)
BaseAddress ==
  [street1 |-> 1, city |-> 1, state |-> 2, postalCode |-> 1, country |-> 2]
BasePackage == [length |-> 1, width |-> 1, height |-> 1, weight |-> 1]
AddressFields == {"street1", "city", "state", "postalCode", "country"}
PackageFields == {"length", "width", "height", "weight"}

\* the addresses tried: the base one and every single-field change to a
\* boundary length
AddressPool ==
  {BaseAddress}
    \cup {[BaseAddress EXCEPT ![f] = 0] : f \in AddressFields}
    \cup {[BaseAddress EXCEPT ![f] = n] : f \in {"state", "country"}, n \in {1, 3}}
PackagePool ==
  {BasePackage}
    \cup {[BasePackage EXCEPT ![f] = n] : f \in PackageFields, n \in {0 - 1, 0}}
PackageListPool ==
  {<<>>, <<BasePackage, BasePackage>>}
    \cup {<<p>> : p \in PackagePool}
    \cup {<<BasePackage, [BasePackage EXCEPT !.weight = 0]>>}
ServiceLevelPool == {Absent, "GROUND", "SAME_DAY"}

BaseRequest ==
  [origin |-> BaseAddress, destination |-> BaseAddress,
   packages |-> <<BasePackage>>, serviceLevel |-> Absent]
RequestPool ==
  {[BaseRequest EXCEPT !.origin = a] : a \in AddressPool}
    \cup {[BaseRequest EXCEPT !.destination = a] : a \in AddressPool}
    \cup {[BaseRequest EXCEPT !.packages = ps] : ps \in PackageListPool}
    \cup {[BaseRequest EXCEPT !.serviceLevel = s] : s \in ServiceLevelPool}
NoRequest == [BaseRequest EXCEPT !.serviceLevel = "NoRequest"]

\* AddressSchema: z.string().min(1) / .min(2).max(2) / .length(2)
AddressSchema(a) ==
  /\ a.street1 >= 1
  /\ a.city >= 1
  /\ a.state >= 2 /\ a.state <= 2
  /\ a.postalCode >= 1
  /\ a.country = 2

\* a PackageSchema of z.number().nonnegative()
PackageSchemaNonNegative(p) ==
  /\ p.length >= 0
  /\ p.width >= 0
  /\ p.height >= 0
  /\ p.weight >= 0

\* PackageSchema: z.number().positive() four times
PackageSchema(p) ==
  /\ p.length > 0
  /\ p.width > 0
  /\ p.height > 0
  /\ p.weight > 0

\* ServiceLevelSchema.optional()
ServiceLevelSchema(s) == s = Absent \/ s \in ServiceLevel

\* a schema that accepts an empty package list
RateRequestSchemaNoMin(r) ==
  /\ AddressSchema(r.origin)
  /\ AddressSchema(r.destination)
  /\ \A i \in 1..Len(r.packages) : PackageSchema(r.packages[i])
  /\ ServiceLevelSchema(r.serviceLevel)

\* RateRequestSchema.parse(r) returns (TRUE) or throws a ZodError (FALSE)
RateRequestSchema(r) ==
  /\ AddressSchema(r.origin)
  /\ AddressSchema(r.destination)
  /\ Len(r.packages) >= 1
  /\ \A i \in 1..Len(r.packages) : PackageSchema(r.packages[i])
  /\ ServiceLevelSchema(r.serviceLevel)

(***************************************************************************)
(* The registry: a JavaScript Map, which keeps its keys in insertion order *)
(* and keeps a key's position when the key is set again.                   *)
(***************************************************************************)
\* what Map.get returns for a missing key (undefined)
NoCarrier == 0

MapHas(m, k) == \E i \in 1..Len(m) : m[i].name = k
MapKeys(m) == [i \in 1..Len(m) |-> m[i].name]
MapValues(m) == [i \in 1..Len(m) |-> m[i].carrier]

\* a lookup that falls back to the first entry instead of undefined
MapGetOrFirst(m, k) ==
  IF MapHas(m, k)
    THEN (CHOOSE e \in {m[i] : i \in 1..Len(m)} : e.name = k).carrier
    ELSE IF Len(m) > 0 THEN m[1].carrier ELSE NoCarrier

MapGet(m, k) ==
  IF MapHas(m, k)
    THEN (CHOOSE e \in {m[i] : i \in 1..Len(m)} : e.name = k).carrier
    ELSE NoCarrier

\* a registry kept as a plain list: every registration is appended
MapSetAppend(m, k, v) == Append(m, [name |-> k, carrier |-> v])

MapSet(m, k, v) ==
  IF MapHas(m, k)
    THEN [i \in 1..Len(m) |->
            IF m[i].name = k THEN [name |-> k, carrier |-> v] ELSE m[i]]
    ELSE Append(m, [name |-> k, carrier |-> v])

(***************************************************************************)
(* What an adapter can do when invoked                                     *)
(***************************************************************************)
QuoteLevels == {"GROUND", "EXPRESS"}
Quotes(a) == {[carrier |-> NameOf(a), serviceLevel |-> s] : s \in QuoteLevels}
QuoteLists(a) ==
  UNION {[1..n -> Quotes(a)] : n \in 0..MaxQuotes}

\* a RateResponse; hasQuotes is FALSE for a value that has no quotes list
Response(quotes, hasErrors, errors) ==
  [hasQuotes |-> TRUE, quotes |-> quotes, hasErrors |-> hasErrors,
   errors |-> errors]
NoQuotesValue ==
  [hasQuotes |-> FALSE, quotes |-> <<>>, hasErrors |-> FALSE, errors |-> <<>>]

\* the values an adapter's promise can fulfil with
AdapterValues(a) ==
  {Response(q, FALSE, <<>>) : q \in QuoteLists(a)}
    \cup {Response(<<>>, TRUE, <<>>), NoQuotesValue}

\* the codes adapters are made to fail with
AdapterErrorCodes == {"AUTH_FAILED", "INVALID_RESPONSE"}

\* the values an adapter's promise can reject with
AdapterReasons ==
  {CarrierIntegrationError(c, "carrier failed", Absent) : c \in AdapterErrorCodes}
    \cup {PlainError, NonError}

\* the values an adapter can throw before it returns a promise
AdapterThrows == AdapterReasons \cup {ZodError}

Pending == [status |-> "pending"]
NotInvoked == [status |-> "notInvoked"]
Fulfilled(v) == [status |-> "fulfilled", value |-> v]
Rejected(e) == [status |-> "rejected", reason |-> e]
Threw(e) == [status |-> "threw", reason |-> e]

\* how a call ends
NoResult == [kind |-> "none"]
Resolves(v) == [kind |-> "resolved", value |-> v]
Rejects(e) == [kind |-> "rejected", error |-> e]

(***************************************************************************)
(* State                                                                   *)
(***************************************************************************)
VARIABLES
  carriers,     \* CarrierIntegrationService.carriers
  pc,           \* "idle", "awaiting" (a call suspended at its await), "done"
  op,           \* the operation in progress
  request,      \* its request argument
  carrierName,  \* its carrierName argument
  targets,      \* the adapters the call dispatches to, in order
  outcome,      \* per target: what its invocation has come to
  completion,   \* the indices of targets in the order they settled
  invoked,      \* the adapters invoked by this call, in order
  result,       \* how the call ended
  regOrder,     \* history: names in order of first registration
  lastReg,      \* history: per name the adapter registered last
  rereg,        \* history: names a second adapter instance was registered under
  heldAtCall    \* history: the registrations in force when the call began

\* Part 2, the transport client (src/src/http/client.ts), and part 3, the
\* token manager (src/unnamed/part_000) and the UPS adapter
\* (src/src/carriers/ups.ts)
VARIABLES
  retryAttempts,  \* HttpClient.retryAttempts (config.http.retryAttempts)
  retryDelayMs,   \* HttpClient.retryDelayMs (config.http.retryDelayMs)
  http,           \* per HttpClient instance: the request in progress
  now,            \* Date.now(), in ms
  cache,          \* OAuth2TokenManager.cache, the entry under cacheKey
  tokenInfo,      \* history: per token issued, when and with what expires_in
  exchanges,      \* history: the token exchanges started so far
  ups             \* the UpsCarrier.getRates call in progress

orchVars ==
  <<carriers, pc, op, request, carrierName, targets, outcome, completion,
    invoked, result, regOrder, lastReg, rereg, heldAtCall>>
configVars == <<retryAttempts, retryDelayMs>>
upsVars == <<now, cache, tokenInfo, exchanges, ups>>

vars == <<orchVars, configVars, http, upsVars>>

callVars ==
  <<pc, op, request, carrierName, targets, outcome, completion, invoked,
    result, heldAtCall>>
histVars == <<regOrder, lastReg, rereg>>

NameSet == {CarrierNames[i] : i \in 1..Len(CarrierNames)}

\* the registrations the history variables describe
HistoryRegistry ==
  [i \in 1..Len(regOrder) |->
     [name |-> regOrder[i], carrier |-> lastReg[regOrder[i]]]]

(***************************************************************************)
(* Values of the transport client, the token manager and the UPS adapter   *)
(***************************************************************************)
\* the two HttpClient instances: UpsCarrier.httpClient and
\* OAuth2TokenManager.httpClient
Clients == {"rating", "token"}

\* config.http defaults
DefaultRetryAttempts == 3
DefaultRetryDelayMs == 1000

\* an Authorization header: none, Bearer <token>, or Basic <credentials>
NoAuth == [scheme |-> "None", token |-> 0]
Bearer(t) == [scheme |-> "Bearer", token |-> t]
BasicAuth == [scheme |-> "Basic", token |-> 0]

\* let lastError: CarrierIntegrationError | undefined
NoError == [kind |-> "undefined"]

\* an HttpClient with no request in progress. auth is
\* client.defaults.headers.common['Authorization']; header is the
\* Authorization header of the request's own config and sent the one the
\* request goes out with; log is the history of the attempts of the request
\* (the code each failure was classified as, "OK" for a success), slept the
\* delays waited so far and lastOutcome what the last attempt settled with
IdleClient ==
  [pc |-> "idle", method |-> Absent, url |-> Absent, header |-> NoAuth,
   sent |-> NoAuth, attempt |-> 0, lastError |-> NoError,
   lastOutcome |-> NoError, log |-> <<>>, slept |-> <<>>, result |-> NoResult,
   auth |-> NoAuth]

\* the cache without an entry under cacheKey
NoEntry == [present |-> FALSE, token |-> 0, expiresAt |-> 0]

\* no UpsCarrier.getRates call in progress. Of a call in progress: token is
\* the token getToken returned (0: none yet), fromCache whether it came from
\* the cache, tokenAt when it was returned, snap and snapNow the cache entry
\* and the time getToken found (asked: getToken was called), exchanged the
\* token exchanges the call started; calls counts the calls that have
\* returned; cleared is the token clearCache removed since the last call
\* returned, with no call in progress (0: none)
IdleUps ==
  [pc |-> "idle", token |-> 0, fromCache |-> FALSE, tokenAt |-> 0,
   asked |-> FALSE, snap |-> NoEntry, snapNow |-> 0, exchanged |-> 0,
   result |-> NoResult, calls |-> 0, cleared |-> 0]

TransportIdle == http = [c \in Clients |-> IdleClient]
UpsIdle ==
  /\ now = 0
  /\ cache = NoEntry
  /\ tokenInfo = <<>>
  /\ exchanges = 0
  /\ ups = IdleUps

Init ==
  /\ carriers = <<>>
  /\ pc = "idle"
  /\ op = "none"
  /\ request = NoRequest
  /\ carrierName = Absent
  /\ targets = <<>>
  /\ outcome = <<>>
  /\ completion = <<>>
  /\ invoked = <<>>
  /\ result = NoResult
  /\ regOrder = <<>>
  /\ lastReg = [n \in NameSet |-> NoCarrier]
  /\ rereg = {}
  /\ heldAtCall = <<>>
  /\ retryAttempts = DefaultRetryAttempts
  /\ retryDelayMs = DefaultRetryDelayMs
  /\ TransportIdle
  /\ UpsIdle

(***************************************************************************)
(* registerCarrier and getAvailableCarriers                                *)
(***************************************************************************)
\* registerCarrier(carrier); it is synchronous, so it can also run while a
\* getRates call is suspended at its await
RegisterCarrier(a) ==
  /\ carriers' = MapSet(carriers, NameOf(a), a)
  /\ regOrder' =
       IF \E i \in 1..Len(regOrder) : regOrder[i] = NameOf(a)
         THEN regOrder ELSE Append(regOrder, NameOf(a))
  /\ lastReg' = [lastReg EXCEPT ![NameOf(a)] = a]
  /\ rereg' =
       IF lastReg[NameOf(a)] \notin {NoCarrier, a}
         THEN rereg \cup {NameOf(a)} ELSE rereg
  /\ UNCHANGED callVars
  /\ UNCHANGED <<configVars, http, upsVars>>

\* a getAvailableCarriers that empties the registry as it lists it
GetAvailableCarriersDrains ==
  /\ pc = "idle"
  /\ pc' = "done"
  /\ op' = "getAvailableCarriers"
  /\ result' = Resolves(MapKeys(carriers))
  /\ heldAtCall' = HistoryRegistry
  /\ carriers' = <<>>
  /\ UNCHANGED <<request, carrierName, targets, outcome, completion, invoked>>
  /\ UNCHANGED histVars
  /\ UNCHANGED <<configVars, http, upsVars>>

\* getAvailableCarriers()
GetAvailableCarriers ==
  /\ pc = "idle"
  /\ pc' = "done"
  /\ op' = "getAvailableCarriers"
  /\ result' = Resolves(MapKeys(carriers))
  /\ heldAtCall' = HistoryRegistry
  /\ UNCHANGED <<carriers, request, carrierName, targets, outcome,
                 completion, invoked>>
  /\ UNCHANGED histVars
  /\ UNCHANGED <<configVars, http, upsVars>>

(***************************************************************************)
(* getRates                                                                *)
(***************************************************************************)
\* a catch clause that does not single out the validator's error
CatchGetRatesNoZod(error) ==
  IF IsCarrierIntegrationError(error)
    THEN Rejects(error)
    ELSE Rejects(CarrierIntegrationError("UNKNOWN",
                   "An unexpected error occurred while getting rates", Absent))

\* the catch clause of getRates
CatchGetRates(error) ==
  IF IsError(error) /\ error.kind = "ZodError"
    THEN Rejects(CarrierIntegrationError("INVALID_REQUEST",
                   "Invalid rate request format", error.message))
    ELSE IF IsCarrierIntegrationError(error)
      THEN Rejects(error)
      ELSE Rejects(CarrierIntegrationError("UNKNOWN",
                     "An unexpected error occurred while getting rates", Absent))

\* the results handed over in the order the adapters settled
AllSettledByCompletion ==
  [i \in 1..Len(targets) |-> outcome[completion[i]]]

\* what Promise.allSettled resolves with: the outcomes in input order
AllSettled == [i \in 1..Len(targets) |-> outcome[i]]

\* the aggregation loop over results i.. with the lists collected so far;
\* spreading the quotes of a value that has none throws a TypeError
RECURSIVE AggregateFrom(_, _, _, _)
AggregateFrom(results, i, allQuotes, errors) ==
  IF i > Len(results)
    THEN [threw |-> FALSE, allQuotes |-> allQuotes, errors |-> errors]
    ELSE IF results[i].status = "fulfilled"
      THEN IF results[i].value.hasQuotes
             THEN AggregateFrom(results, i + 1,
                                allQuotes \o results[i].value.quotes, errors)
             ELSE [threw |-> TRUE, allQuotes |-> allQuotes, errors |-> errors]
      ELSE IF IsCarrierIntegrationError(results[i].reason)
        THEN AggregateFrom(results, i + 1, allQuotes,
                           Append(errors, toCarrierError(results[i].reason)))
        ELSE AggregateFrom(results, i + 1, allQuotes, errors)

Aggregate(results) == AggregateFrom(results, 1, <<>>, <<>>)

\* the object getRates returns: errors is set only when the list is not empty
RateResponse(allQuotes, errors) ==
  Response(allQuotes, Len(errors) > 0, errors)

\* getRates(request) up to its await: validation, then the map that invokes
\* every adapter. thrower = 0: every invocation returned a promise;
\* thrower = k: the k-th invocation threw, which ends the map and the call
GetRates(req) ==
  /\ pc = "idle"
  /\ op' = "getRates"
  /\ request' = req
  /\ heldAtCall' = HistoryRegistry
  /\ completion' = <<>>
  /\ IF ~RateRequestSchema(req)
       THEN /\ pc' = "done"
            /\ result' = CatchGetRates(ZodError)
            /\ targets' = <<>>
            /\ outcome' = <<>>
            /\ invoked' = <<>>
       ELSE LET values == MapValues(carriers) IN
            /\ targets' = values
            /\ \E thrower \in 0..Len(values) :
                 IF thrower = 0
                   THEN /\ pc' = "awaiting"
                        /\ invoked' = values
                        /\ outcome' = [i \in 1..Len(values) |-> Pending]
                        /\ result' = NoResult
                   ELSE \E e \in AdapterThrows :
                        /\ pc' = "done"
                        /\ invoked' = SubSeq(values, 1, thrower)
                        /\ outcome' =
                             [i \in 1..Len(values) |->
                                IF i < thrower THEN Pending
                                ELSE IF i = thrower THEN Threw(e)
                                ELSE NotInvoked]
                        /\ result' = CatchGetRates(e)
  /\ UNCHANGED <<carriers, carrierName>>
  /\ UNCHANGED histVars
  /\ UNCHANGED <<configVars, http, upsVars>>

\* the promise of the i-th invoked adapter settles
AdapterSettle(i) ==
  /\ pc = "awaiting"
  /\ i \in 1..Len(targets)
  /\ outcome[i].status = "pending"
  /\ \E o \in {Fulfilled(v) : v \in AdapterValues(targets[i])}
               \cup {Rejected(e) : e \in AdapterReasons} :
       outcome' = [outcome EXCEPT ![i] = o]
  /\ completion' = Append(completion, i)
  /\ UNCHANGED <<carriers, pc, op, request, carrierName, targets, invoked,
                 result, heldAtCall>>
  /\ UNCHANGED histVars
  /\ UNCHANGED <<configVars, http, upsVars>>

AllHaveSettled == \A i \in 1..Len(targets) : outcome[i].status # "pending"

\* getRates from its await on: the aggregation loop and the return
GetRatesResume ==
  /\ pc = "awaiting"
  /\ op = "getRates"
  /\ AllHaveSettled
  /\ pc' = "done"
  /\ LET agg == Aggregate(AllSettled) IN
       result' =
         IF agg.threw
           THEN CatchGetRates(TypeError)
           ELSE Resolves(RateResponse(agg.allQuotes, agg.errors))
  /\ UNCHANGED <<carriers, op, request, carrierName, targets, outcome,
                 completion, invoked, heldAtCall>>
  /\ UNCHANGED histVars
  /\ UNCHANGED <<configVars, http, upsVars>>

(***************************************************************************)
(* getRatesFromCarrier                                                     *)
(***************************************************************************)
\* the tagged results
Success(data) == [success |-> TRUE, data |-> data]
Failure(code, message, details) ==
  [success |-> FALSE,
   error |-> [code |-> code, message |-> message, details |-> details]]

\* a catch clause that passes on what is no CarrierIntegrationError
CatchFromCarrierRethrow(error) ==
  IF IsCarrierIntegrationError(error)
    THEN Resolves([success |-> FALSE, error |-> toCarrierError(error)])
    ELSE Rejects(error)

\* a catch clause that reports the validator's error as getRates does
CatchFromCarrierZodAsInvalid(error) ==
  IF IsCarrierIntegrationError(error)
    THEN Resolves([success |-> FALSE, error |-> toCarrierError(error)])
    ELSE IF IsError(error) /\ error.kind = "ZodError"
      THEN Resolves(Failure("INVALID_REQUEST", "Invalid rate request format",
                            error.message))
      ELSE Resolves(Failure("UNKNOWN",
                      IF IsError(error) THEN error.message ELSE "Unknown error",
                      Absent))

\* the catch clause of getRatesFromCarrier
CatchFromCarrier(error) ==
  IF IsCarrierIntegrationError(error)
    THEN Resolves([success |-> FALSE, error |-> toCarrierError(error)])
    ELSE Resolves(Failure("UNKNOWN",
                    IF IsError(error) THEN error.message ELSE "Unknown error",
                    Absent))

\* getRatesFromCarrier(carrierName, request) up to its await: the lookup,
\* then validation, then the invocation of the one adapter
GetRatesFromCarrier(name, req) ==
  /\ pc = "idle"
  /\ op' = "getRatesFromCarrier"
  /\ carrierName' = name
  /\ request' = req
  /\ heldAtCall' = HistoryRegistry
  /\ completion' = <<>>
  /\ LET carrier == MapGet(carriers, name) IN
       IF carrier = NoCarrier
         THEN /\ pc' = "done"
              /\ result' = Resolves(Failure("CARRIER_NOT_FOUND",
                                            "Carrier is not registered", Absent))
              /\ targets' = <<>>
              /\ outcome' = <<>>
              /\ invoked' = <<>>
         ELSE IF ~RateRequestSchema(req)
           THEN /\ pc' = "done"
                /\ result' = CatchFromCarrier(ZodError)
                /\ targets' = <<>>
                /\ outcome' = <<>>
                /\ invoked' = <<>>
           ELSE /\ targets' = <<carrier>>
                /\ invoked' = <<carrier>>
                /\ \/ /\ pc' = "awaiting"
                      /\ outcome' = <<Pending>>
                      /\ result' = NoResult
                   \/ \E e \in AdapterThrows :
                        /\ pc' = "done"
                        /\ outcome' = <<Threw(e)>>
                        /\ result' = CatchFromCarrier(e)
  /\ UNCHANGED carriers
  /\ UNCHANGED histVars
  /\ UNCHANGED <<configVars, http, upsVars>>

\* getRatesFromCarrier from its await on
GetRatesFromCarrierResume ==
  /\ pc = "awaiting"
  /\ op = "getRatesFromCarrier"
  /\ AllHaveSettled
  /\ pc' = "done"
  /\ result' =
       IF outcome[1].status = "fulfilled"
         THEN Resolves(Success(outcome[1].value))
         ELSE CatchFromCarrier(outcome[1].reason)
  /\ UNCHANGED <<carriers, op, request, carrierName, targets, outcome,
                 completion, invoked, heldAtCall>>
  /\ UNCHANGED histVars
  /\ UNCHANGED <<configVars, http, upsVars>>

\* the caller takes the result; the service is ready for the next call
Return ==
  /\ pc = "done"
  /\ pc' = "idle"
  /\ op' = "none"
  /\ request' = NoRequest
  /\ carrierName' = Absent
  /\ targets' = <<>>
  /\ outcome' = <<>>
  /\ completion' = <<>>
  /\ invoked' = <<>>
  /\ result' = NoResult
  /\ heldAtCall' = <<>>
  /\ UNCHANGED carriers
  /\ UNCHANGED histVars
  /\ UNCHANGED <<configVars, http, upsVars>>

\* the names callers ask for: the adapters' names and one nobody carries
LookupNames == NameSet \cup {"dhl"}

Next ==
  \/ \E a \in Adapters : RegisterCarrier(a)
  \/ GetAvailableCarriers
  \/ \E req \in RequestPool : GetRates(req)
  \/ \E i \in 1..NumAdapters : AdapterSettle(i)
  \/ GetRatesResume
  \/ \E name \in LookupNames, req \in RequestPool : GetRatesFromCarrier(name, req)
  \/ GetRatesFromCarrierResume
  \/ Return

SpecOrch == Init /\ [][Next]_vars

(***************************************************************************)
(* Properties of the orchestrator                                          *)
(***************************************************************************)
GetRatesDone == op = "getRates" /\ pc = "done"
FromCarrierDone == op = "getRatesFromCarrier" /\ pc = "done"

\* the targets whose promise rejected, and those whose promise fulfilled
\* with a quotes list
FailedTargets == {i \in 1..Len(targets) : outcome[i].status = "rejected"}
SucceededTargets ==
  {i \in 1..Len(targets) :
     outcome[i].status = "fulfilled" /\ outcome[i].value.hasQuotes}

\* C1: the response of getRates has an errors field, and a non-empty one,
\* exactly when at least one adapter's getRates rejected, whatever it
\* rejected with.
C1_ErrorsIffAdapterFailed ==
  (GetRatesDone /\ result.kind = "resolved") =>
    /\ (result.value.hasErrors /\ Len(result.value.errors) > 0)
         <=> (FailedTargets # {})
    /\ (FailedTargets = {}) => ~result.value.hasErrors

\* C2: the response holds exactly one CarrierError per failing adapter and
\* every quote of every succeeding adapter, so quotes is not empty when a
\* succeeding adapter returned a quote.
C2_OneErrorPerFailedAdapter ==
  (GetRatesDone /\ result.kind = "resolved") =>
    /\ Len(result.value.errors) = Cardinality(FailedTargets)
    /\ \A i \in SucceededTargets :
         \A k \in 1..Len(outcome[i].value.quotes) :
           \E j \in 1..Len(result.value.quotes) :
             result.value.quotes[j] = outcome[i].value.quotes[k]

\* C3: a getRates call whose request passes validation resolves with a
\* response, whatever the adapters do.
C3_ValidRequestAlwaysResolves ==
  (GetRatesDone /\ RateRequestSchema(request)) => result.kind = "resolved"

\* the quotes of the first n targets, in order, failed targets giving none
RECURSIVE QuotesOfFirst(_)
QuotesOfFirst(n) ==
  IF n = 0 THEN <<>>
  ELSE QuotesOfFirst(n - 1)
         \o (IF outcome[n].status = "fulfilled"
               THEN outcome[n].value.quotes ELSE <<>>)

RECURSIVE QuoteCountOfFirst(_)
QuoteCountOfFirst(n) ==
  IF n = 0 THEN 0
  ELSE QuoteCountOfFirst(n - 1)
         + (IF outcome[n].status = "fulfilled"
              THEN Len(outcome[n].value.quotes) ELSE 0)

\* C4: the quotes of the response are the quote lists of the adapters that
\* succeeded, concatenated in registration order, each list in the order the
\* adapter returned it, whatever order the adapters settled in; the length
\* is the sum of the adapters' quote counts.
C4_QuotesInRegistrationOrder ==
  (GetRatesDone /\ result.kind = "resolved") =>
    /\ targets = MapValues(heldAtCall)
    /\ result.value.quotes = QuotesOfFirst(Len(targets))
    /\ Len(result.value.quotes) = QuoteCountOfFirst(Len(targets))

\* C4's case: two adapters, the second settled first, both returned quotes
C4_Witness ==
  /\ GetRatesDone
  /\ result.kind = "resolved"
  /\ Len(targets) = 2
  /\ completion = <<2, 1>>
  /\ outcome[1].status = "fulfilled" /\ Len(outcome[1].value.quotes) = 2
  /\ outcome[2].status = "fulfilled" /\ Len(outcome[2].value.quotes) >= 1
  /\ outcome[1].value.quotes[1] # outcome[1].value.quotes[2]

\* the ways the claims list for a request to miss the canonical schema
EmptyRequiredField(a) ==
  a.street1 = 0 \/ a.city = 0 \/ a.state = 0 \/ a.postalCode = 0 \/ a.country = 0
CodeNotTwoChars(a) == a.state # 2 \/ a.country # 2
NonPositivePackage(p) ==
  p.length <= 0 \/ p.width <= 0 \/ p.height <= 0 \/ p.weight <= 0
ViolatesCanonicalSchema(r) ==
  \/ \E a \in {r.origin, r.destination} :
       EmptyRequiredField(a) \/ CodeNotTwoChars(a)
  \/ \E i \in 1..Len(r.packages) : NonPositivePackage(r.packages[i])
  \/ r.packages = <<>>
  \/ r.serviceLevel \notin ServiceLevel \cup {Absent}

\* C5: getRates on a request that misses the canonical schema fails with a
\* CarrierIntegrationError coded INVALID_REQUEST whose details carry the
\* validator's diagnostic.
C5_InvalidRequestCode ==
  (GetRatesDone /\ ViolatesCanonicalSchema(request)) =>
    /\ result.kind = "rejected"
    /\ IsCarrierIntegrationError(result.error)
    /\ result.error.code = "INVALID_REQUEST"
    /\ result.error.details = ZodError.message

\* C5's case: a request whose country code has three characters was refused
C5_Witness ==
  /\ GetRatesDone
  /\ request.destination.country = 3
  /\ result.kind = "rejected"

\* C6: a getRates call whose request misses the canonical schema invokes no
\* adapter.
C6_NoDispatchOnInvalidRequest ==
  (op = "getRates" /\ ViolatesCanonicalSchema(request)) =>
    /\ invoked = <<>>
    /\ targets = <<>>
    /\ pc = "done"

\* C6's case: two adapters are registered and the request has no package
C6_Witness ==
  /\ GetRatesDone
  /\ request.packages = <<>>
  /\ Len(heldAtCall) = 2
  /\ invoked = <<>>

\* C7: once getRates has returned on a request that passed validation,
\* every registered adapter was invoked exactly once and has settled.
C7_EveryAdapterInvokedAndSettled ==
  (GetRatesDone /\ RateRequestSchema(request)) =>
    /\ invoked = MapValues(heldAtCall)
    /\ \A i \in 1..Len(targets) :
         outcome[i].status \notin {"pending", "notInvoked"}

\* C8: getRatesFromCarrier never rejects; it resolves with
\* {success: true, data} or with {success: false, error} where error has a
\* code and a message.
C8_FromCarrierNeverRejects ==
  FromCarrierDone =>
    /\ result.kind = "resolved"
    /\ IF result.value.success
         THEN /\ outcome[1].status = "fulfilled"
              /\ result.value.data = outcome[1].value
         ELSE /\ result.value.error.code \in ErrorCode \cup {"CARRIER_NOT_FOUND"}
              /\ result.value.error.message # Absent

\* C8's case: the adapter rejected with a value that is no Error
C8_Witness ==
  /\ FromCarrierDone
  /\ Len(outcome) = 1
  /\ outcome[1].status = "rejected"
  /\ outcome[1].reason.kind = "NonError"
  /\ result.kind = "resolved"

\* C9: getRatesFromCarrier gives CARRIER_NOT_FOUND exactly when the name was
\* not registered when the call was made, and then invokes no adapter.
C9_CarrierNotFoundIffUnregistered ==
  FromCarrierDone =>
    /\ (result.kind = "resolved" /\ ~result.value.success
          /\ result.value.error.code = "CARRIER_NOT_FOUND")
         <=> ~MapHas(heldAtCall, carrierName)
    /\ ~MapHas(heldAtCall, carrierName) => invoked = <<>>

\* C9's case: another carrier is registered, the one asked for is not
C9_Witness ==
  /\ FromCarrierDone
  /\ Len(heldAtCall) >= 1
  /\ ~MapHas(heldAtCall, carrierName)
  /\ result.value.error.code = "CARRIER_NOT_FOUND"

\* C10: the registry holds one adapter per name, the one registered last
\* under it, the names in the order they were first registered;
\* getAvailableCarriers returns exactly these names in that order; getRates
\* and getRatesFromCarrier invoke only adapters held when they are called.
C10_RegistryHoldsLastPerName ==
  /\ \A i, j \in 1..Len(carriers) :
       carriers[i].name = carriers[j].name => i = j
  /\ MapKeys(carriers) = regOrder
  /\ \A i \in 1..Len(carriers) :
       carriers[i].carrier = lastReg[carriers[i].name]
  /\ (op = "getAvailableCarriers" /\ pc = "done") =>
       result.value = MapKeys(heldAtCall)
  /\ op = "getRates" =>
       \A k \in 1..Len(invoked) : invoked[k] = heldAtCall[k].carrier
  /\ op = "getRatesFromCarrier" =>
       \A k \in 1..Len(invoked) :
         invoked[k] = MapGet(heldAtCall, carrierName)

\* C10's case: fedex was registered before ups, ups was registered again
\* with another adapter, and getRates dispatched to both adapters held
C10_Witness ==
  /\ GetRatesDone
  /\ regOrder = <<"fedex", "ups">>
  /\ "ups" \in rereg
  /\ lastReg["ups"] = 3
  /\ invoked = <<2, 3>>


(***************************************************************************)
(* Part 2: the transport client, src/src/http/client.ts                    *)
(***************************************************************************)
MaxRetryAttempts == 3
RetryDelays == {250, DefaultRetryDelayMs}

HttpMethods == {"GET", "POST", "PUT", "DELETE"}
Urls == {"/rating/v2/shop/rates", "/security/v1/oauth/token"}

\* what the underlying HTTP layer (axios) hands back for one attempt: a
\* response whose data is returned, or a thrown value. A thrown AxiosError
\* has a code and a message and, when the server answered, a response with
\* a status and a body
NoResponse == [present |-> FALSE, status |-> 0, data |-> 0]
HttpResponse(status, data) == [present |-> TRUE, status |-> status, data |-> data]
Ok(data) == [kind |-> "ok", data |-> data]
Fault(kind, code, message, response) ==
  [kind |-> kind, code |-> code, message |-> message, response |-> response]
AxiosError(code, message, response) == Fault("AxiosError", code, message, response)
IsAxiosError(e) == e.kind = "AxiosError"

\* statuses a response that axios rejects can carry (validateStatus accepts
\* 2xx only), and the codes of an AxiosError without response
ErrorStatuses == {304, 400, 401, 403, 404, 418, 429, 500, 502, 503, 504}
NoResponseCodes == {"ECONNABORTED", "ECONNREFUSED", "ERR_NETWORK"}
Bodies == {1, 2}

ResponseFaults ==
  {AxiosError("ERR_BAD_RESPONSE", "status", HttpResponse(st, d)) :
     st \in ErrorStatuses, d \in Bodies}
NoResponseFaults ==
  {AxiosError(c, "no response", NoResponse) : c \in NoResponseCodes}
NativeFaults ==
  {Fault("Error", Absent, "boom", NoResponse),
   Fault("NonError", Absent, Absent, NoResponse)}
Faults == ResponseFaults \cup NoResponseFaults \cup NativeFaults
AttemptOutcomes == {Ok(d) : d \in Bodies} \cup Faults

\* new CarrierIntegrationError(code, message, options): options carries
\* details, statusCode and originalError, each optional
NoStatus == 0
NoDetails == [data |-> 0, method |-> Absent, url |-> Absent]
NoOptions ==
  [details |-> NoDetails, statusCode |-> NoStatus, originalError |-> NoError]
Original(error) ==
  [details |-> NoDetails, statusCode |-> NoStatus, originalError |-> error]
CarrierIntegrationErrorWith(code, message, options) ==
  [kind |-> "CarrierIntegrationError", code |-> code, message |-> message,
   details |-> options.details, statusCode |-> options.statusCode,
   originalError |-> options.originalError]

\* HttpClient.handleError, the branch of an AxiosError (lines 85-129)
handleAxiosError(error, method, url) ==
  LET status == error.response.status
      data == error.response.data
  IN IF ~error.response.present THEN
       IF error.code = "ECONNABORTED" THEN
         CarrierIntegrationErrorWith("TIMEOUT", "Request timeout", Original(error))
       ELSE IF error.code = "ECONNREFUSED" THEN
         CarrierIntegrationErrorWith("CONNECTION_REFUSED", "Connection refused",
                                     Original(error))
       ELSE
         CarrierIntegrationErrorWith("NETWORK_ERROR", error.message, Original(error))
     ELSE IF status # 0 /\ status >= 400 THEN
       LET errorCode ==
             IF status = 400 THEN "HTTP_400"
             ELSE IF status = 401 THEN "HTTP_401"
             ELSE IF status = 429 THEN "HTTP_429"
             ELSE IF status >= 500 THEN "HTTP_500"
             ELSE "HTTP_UNKNOWN"
       IN CarrierIntegrationErrorWith(
            errorCode, "HTTP " \o ToString(status) \o ": " \o error.message,
            [statusCode |-> status,
             details |-> [data |-> data, method |-> method, url |-> url],
             originalError |-> error])
     ELSE
       CarrierIntegrationErrorWith("NETWORK_ERROR", error.message, Original(error))

\* a handleError that lets an Error which is no AxiosError through as it is
handleErrorPassThrough(error, method, url) ==
  IF IsAxiosError(error) THEN handleAxiosError(error, method, url)
  ELSE IF IsError(error) THEN error
  ELSE CarrierIntegrationErrorWith("UNKNOWN", "An unknown error occurred", NoOptions)

\* HttpClient.handleError
handleError(error, method, url) ==
  IF IsAxiosError(error) THEN handleAxiosError(error, method, url)
  ELSE IF IsError(error) THEN
    CarrierIntegrationErrorWith("UNKNOWN", error.message, Original(error))
  ELSE
    CarrierIntegrationErrorWith("UNKNOWN", "An unknown error occurred", NoOptions)

\* httpStatusToErrorCode (errors/index.ts), which handleError does not call
httpStatusToErrorCode(status) ==
  CASE status = 400 -> "HTTP_400"
    [] status = 401 -> "HTTP_401"
    [] status = 403 -> "HTTP_403"
    [] status = 404 -> "HTTP_404"
    [] status = 429 -> "HTTP_429"
    [] status = 500 -> "HTTP_500"
    [] status = 502 -> "HTTP_502"
    [] status = 503 -> "HTTP_503"
    [] OTHER -> "HTTP_UNKNOWN"

\* an isRetryableError that also retries a bad request
isRetryableErrorWith400(error) ==
  error.code \in {"TIMEOUT", "NETWORK_ERROR", "HTTP_400", "HTTP_429",
                  "HTTP_500", "HTTP_502", "HTTP_503"}

\* isRetryableError (errors/index.ts)
isRetryableError(error) ==
  error.code \in {"TIMEOUT", "NETWORK_ERROR", "HTTP_429",
                  "HTTP_500", "HTTP_502", "HTTP_503"}

\* throw lastError || new CarrierIntegrationError(UNKNOWN, ...)
Fallback ==
  CarrierIntegrationErrorWith("UNKNOWN", "Request failed after retries", NoOptions)

\* the Authorization header a request goes out with: the one of its own
\* config, else the default of the axios instance
EffectiveAuth(h) == IF h.header.scheme # "None" THEN h.header ELSE h.auth

\* a loop head that allows one attempt more
LoopHeadOneMore(h, attempt) ==
  IF attempt <= retryAttempts + 1
  THEN [h EXCEPT !.pc = "inflight", !.attempt = attempt, !.sent = EffectiveAuth(h)]
  ELSE [h EXCEPT !.pc = "done", !.attempt = attempt,
                 !.result = Rejects(IF h.lastError.kind # "undefined"
                                    THEN h.lastError ELSE Fallback)]

\* the head of the for loop with the given value of attempt: the next
\* request goes out, or the loop is left and line 81 throws
LoopHead(h, attempt) ==
  IF attempt <= retryAttempts
  THEN [h EXCEPT !.pc = "inflight", !.attempt = attempt, !.sent = EffectiveAuth(h)]
  ELSE [h EXCEPT !.pc = "done", !.attempt = attempt,
                 !.result = Rejects(IF h.lastError.kind # "undefined"
                                    THEN h.lastError ELSE Fallback)]

\* a catch clause that sleeps after the last attempt as well
CatchAlwaysSleeps(h, error) ==
  LET lastError == handleError(error, h.method, h.url)
      logged == [h EXCEPT !.lastError = lastError, !.lastOutcome = error,
                          !.log = Append(@, lastError.code)]
  IN IF ~isRetryableError(lastError)
     THEN [logged EXCEPT !.pc = "done", !.result = Rejects(lastError)]
     ELSE LET delayMs == retryDelayMs * (2 ^ (h.attempt - 1))
          IN [logged EXCEPT !.pc = "sleeping", !.slept = Append(@, delayMs)]

\* a catch clause that keeps the first error it classified
CatchKeepsFirst(h, error) ==
  LET classified == handleError(error, h.method, h.url)
      lastError == IF h.lastError.kind # "undefined" THEN h.lastError ELSE classified
      logged == [h EXCEPT !.lastError = lastError, !.lastOutcome = error,
                          !.log = Append(@, classified.code)]
  IN IF ~isRetryableError(classified) \/ h.attempt = retryAttempts
     THEN [logged EXCEPT !.pc = "done", !.result = Rejects(lastError)]
     ELSE LET delayMs == retryDelayMs * (2 ^ (h.attempt - 1))
          IN [logged EXCEPT !.pc = "sleeping", !.slept = Append(@, delayMs)]

\* the catch clause of requestWithRetry, lines 64-78, up to its await
Catch(h, error) ==
  LET lastError == handleError(error, h.method, h.url)
      logged == [h EXCEPT !.lastError = lastError, !.lastOutcome = error,
                          !.log = Append(@, lastError.code)]
  IN IF ~isRetryableError(lastError) \/ h.attempt = retryAttempts
     THEN [logged EXCEPT !.pc = "done", !.result = Rejects(lastError)]
     ELSE LET delayMs == retryDelayMs * (2 ^ (h.attempt - 1))
          IN [logged EXCEPT !.pc = "sleeping", !.slept = Append(@, delayMs)]

\* HttpClient.requestWithRetry up to its first await
requestWithRetry(h, method, url, header) ==
  LoopHead([IdleClient EXCEPT !.method = method, !.url = url,
                              !.header = header, !.auth = h.auth], 1)
RequestWithRetry(c, method, url, header) ==
  /\ http[c].pc = "idle"
  /\ http' = [http EXCEPT ![c] = requestWithRetry(@, method, url, header)]

\* HttpClient.get, post, put and delete
Get(c, url, header) == RequestWithRetry(c, "GET", url, header)
Post(c, url, header) == RequestWithRetry(c, "POST", url, header)
Put(c, url, header) == RequestWithRetry(c, "PUT", url, header)
Delete(c, url, header) == RequestWithRetry(c, "DELETE", url, header)

\* a client whose success after a failed attempt still raises that failure
AttemptSettlesRemembers(c, o) ==
  /\ http[c].pc = "inflight"
  /\ http' = [http EXCEPT ![c] =
       IF o.kind = "ok"
       THEN IF Len(@.log) = 0
            THEN [@ EXCEPT !.pc = "done", !.log = Append(@, "OK"),
                           !.lastOutcome = o, !.result = Resolves(o.data)]
            ELSE [@ EXCEPT !.pc = "done", !.log = Append(@, "OK"),
                           !.lastOutcome = o,
                           !.result = Rejects(http[c].lastError)]
       ELSE Catch(@, o)]

\* await this.client.request(...) settles with outcome o: line 63 returns
\* the data, or the catch clause runs
AttemptSettles(c, o) ==
  /\ http[c].pc = "inflight"
  /\ http' = [http EXCEPT ![c] =
       IF o.kind = "ok"
       THEN [@ EXCEPT !.pc = "done", !.log = Append(@, "OK"),
                      !.lastOutcome = o, !.result = Resolves(o.data)]
       ELSE Catch(@, o)]

\* a wake-up that starts the loop over instead of counting the attempt
WakeRestarts(c) ==
  /\ http[c].pc = "sleeping"
  /\ http' = [http EXCEPT ![c] = LoopHead(@, 1)]

\* await this.sleep(delayMs) resolves: attempt++ and the loop head
Wake(c) ==
  /\ http[c].pc = "sleeping"
  /\ http' = [http EXCEPT ![c] = LoopHead(@, @.attempt + 1)]

\* a setAuthHeader that keeps a header already set
setAuthHeaderOnce(h, token) ==
  IF h.auth.scheme = "None" THEN [h EXCEPT !.auth = Bearer(token)] ELSE h

\* HttpClient.setAuthHeader
setAuthHeader(h, token) == [h EXCEPT !.auth = Bearer(token)]

\* the caller of the request method receives its result
Released(h) == [IdleClient EXCEPT !.auth = h.auth]

(***************************************************************************)
(* The transport client on its own: one request at a time, any method, any *)
(* sequence of attempt outcomes, any retry configuration                   *)
(***************************************************************************)
InitHttp ==
  /\ carriers = <<>>
  /\ pc = "idle"
  /\ op = "none"
  /\ request = NoRequest
  /\ carrierName = Absent
  /\ targets = <<>>
  /\ outcome = <<>>
  /\ completion = <<>>
  /\ invoked = <<>>
  /\ result = NoResult
  /\ regOrder = <<>>
  /\ lastReg = [n \in NameSet |-> NoCarrier]
  /\ rereg = {}
  /\ heldAtCall = <<>>
  /\ retryAttempts \in 0..MaxRetryAttempts
  /\ retryDelayMs \in RetryDelays
  /\ TransportIdle
  /\ UpsIdle

OthersIdle(c) == \A d \in Clients \ {c} : http[d].pc = "idle"

HttpGet(c, url) ==
  /\ OthersIdle(c) /\ Get(c, url, NoAuth)
  /\ UNCHANGED <<orchVars, configVars, upsVars>>
HttpPost(c, url) ==
  /\ OthersIdle(c) /\ Post(c, url, NoAuth)
  /\ UNCHANGED <<orchVars, configVars, upsVars>>
HttpPut(c, url) ==
  /\ OthersIdle(c) /\ Put(c, url, NoAuth)
  /\ UNCHANGED <<orchVars, configVars, upsVars>>
HttpDelete(c, url) ==
  /\ OthersIdle(c) /\ Delete(c, url, NoAuth)
  /\ UNCHANGED <<orchVars, configVars, upsVars>>
HttpSettle(c, o) ==
  /\ AttemptSettles(c, o)
  /\ UNCHANGED <<orchVars, configVars, upsVars>>
HttpWake(c) ==
  /\ Wake(c)
  /\ UNCHANGED <<orchVars, configVars, upsVars>>
HttpReturn(c) ==
  /\ http[c].pc = "done"
  /\ http' = [http EXCEPT ![c] = Released(@)]
  /\ UNCHANGED <<orchVars, configVars, upsVars>>

NextHttp ==
  \/ \E c \in Clients, url \in Urls : HttpGet(c, url)
  \/ \E c \in Clients, url \in Urls : HttpPost(c, url)
  \/ \E c \in Clients, url \in Urls : HttpPut(c, url)
  \/ \E c \in Clients, url \in Urls : HttpDelete(c, url)
  \/ \E c \in Clients, o \in AttemptOutcomes : HttpSettle(c, o)
  \/ \E c \in Clients : HttpWake(c)
  \/ \E c \in Clients : HttpReturn(c)

SpecHttp == InitHttp /\ [][NextHttp]_vars


(***************************************************************************)
(* Properties of the transport client                                      *)
(***************************************************************************)
\* the attempts of the request of client c that have gone out
AttemptsSent(c) ==
  IF http[c].pc = "inflight" THEN Len(http[c].log) + 1 ELSE Len(http[c].log)
RetryableClasses ==
  {"TIMEOUT", "NETWORK_ERROR", "HTTP_429", "HTTP_500", "HTTP_502", "HTTP_503"}
HttpFailed(c) == http[c].pc = "done" /\ http[c].result.kind = "rejected"

\* C11: a failed attempt is followed by another attempt only if its failure
\* is classified TIMEOUT, NETWORK_ERROR, HTTP_429 or a 5xx code and attempts
\* remain (a response with a status >= 500 is so classified); a failure of
\* any other classification is the last attempt of the request, which ends
\* with it, without a wait
C11_RetryOnlyRetryableClasses ==
  \A c \in Clients :
    LET h == http[c] IN
    /\ \A i \in 1..Len(h.log) :
         /\ (i < AttemptsSent(c) \/ (i = Len(h.log) /\ h.pc = "sleeping"))
              => h.log[i] \in RetryableClasses /\ i < retryAttempts
         /\ h.log[i] \notin RetryableClasses \cup {"OK"}
              => /\ i = Len(h.log)
                 /\ h.pc = "done"
                 /\ h.result.kind = "rejected"
                 /\ Len(h.slept) = i - 1
    /\ ( /\ h.pc \in {"sleeping", "done"}
         /\ h.lastOutcome.kind = "AxiosError"
         /\ h.lastOutcome.response.present
         /\ h.lastOutcome.response.status >= 500 )
         => /\ h.log[Len(h.log)] \in {"HTTP_500", "HTTP_502", "HTTP_503"}
            /\ Len(h.log) < retryAttempts => h.pc = "sleeping"
C11_Witness ==
  \E c \in Clients :
    /\ HttpFailed(c)
    /\ Len(http[c].log) = 2
    /\ http[c].log[1] = "HTTP_500"
    /\ http[c].log[2] = "CONNECTION_REFUSED"
    /\ retryAttempts > 2

\* C12: the attempts of one call never exceed retryAttempts; the call stops
\* at the first successful attempt and returns its response data; when every
\* attempt fails with a retryable classification the call makes exactly
\* retryAttempts attempts
C12_AttemptsBoundedByRetryAttempts ==
  \A c \in Clients :
    LET h == http[c] IN
    /\ AttemptsSent(c) <= retryAttempts
    /\ \A i \in 1..Len(h.log) :
         h.log[i] = "OK"
           => /\ i = Len(h.log)
              /\ h.pc = "done"
              /\ h.lastOutcome.kind = "ok"
              /\ h.result = Resolves(h.lastOutcome.data)
    /\ (h.pc = "done" /\ \A i \in 1..Len(h.log) : h.log[i] \in RetryableClasses)
         => Len(h.log) = retryAttempts
C12_Witness ==
  \E c \in Clients :
    /\ http[c].pc = "done"
    /\ retryAttempts >= 3
    /\ Len(http[c].log) = retryAttempts
    /\ \A i \in 1..Len(http[c].log) : http[c].log[i] \in RetryableClasses

\* retryDelayMs * 2^(k-1), by repeated doubling
RECURSIVE Backoff(_)
Backoff(k) == IF k <= 1 THEN retryDelayMs ELSE 2 * Backoff(k - 1)

\* C13: the wait between failed attempt k and attempt k+1 is exactly
\* retryDelayMs * 2^(k-1); there is no wait before the first attempt, none
\* after the final attempt and none after a non-retryable failure
C13_ExponentialBackoff ==
  \A c \in Clients :
    LET h == http[c] IN
    /\ \A k \in 1..Len(h.slept) :
         /\ h.slept[k] = Backoff(k)
         /\ k <= Len(h.log)
         /\ h.log[k] \in RetryableClasses
    /\ h.pc = "inflight" => Len(h.slept) = h.attempt - 1
    /\ h.pc = "sleeping" => Len(h.slept) = Len(h.log)
    /\ h.pc = "done" =>
         Len(h.slept) = (IF Len(h.log) = 0 THEN 0 ELSE Len(h.log) - 1)
C13_Witness ==
  \E c \in Clients :
    /\ http[c].pc = "done"
    /\ Len(http[c].log) = 3
    /\ http[c].slept = <<retryDelayMs, 2 * retryDelayMs>>

\* C14: the error a failed request raises is the classification of the last
\* attempt made, and with retryAttempts >= 1 it is never the generic
\* 'Request failed after retries' fallback
C14_RaisesLastClassification ==
  \A c \in Clients :
    LET h == http[c] IN
    HttpFailed(c) =>
      /\ Len(h.log) > 0 =>
           /\ h.result.error.code = h.log[Len(h.log)]
           /\ h.lastOutcome.kind # "ok"
           /\ h.lastOutcome.kind # "NonError"
                => h.result.error.originalError = h.lastOutcome
           /\ h.lastOutcome.kind = "NonError"
                => h.result.error.message = "An unknown error occurred"
      /\ retryAttempts >= 1 =>
           /\ Len(h.log) > 0
           /\ h.result.error.message # "Request failed after retries"
C14_Witness ==
  \E c \in Clients :
    /\ HttpFailed(c)
    /\ Len(http[c].log) >= 2
    /\ http[c].log[1] = "TIMEOUT"
    /\ http[c].result.error.code = "HTTP_401"

\* C15: every failure that leaves a request method is a
\* CarrierIntegrationError with a code of the taxonomy, whatever the HTTP
\* layer raised
C15_OnlyClassifiedErrorsLeave ==
  \A c \in Clients :
    HttpFailed(c) =>
      /\ IsCarrierIntegrationError(http[c].result.error)
      /\ http[c].result.error.code \in ErrorCode
C15_Witness ==
  \E c \in Clients :
    /\ HttpFailed(c)
    /\ http[c].method = "PUT"
    /\ http[c].lastOutcome.kind = "Error"

\* the code the classification table assigns to a response status >= 400
StatusClasses(status) ==
  IF status = 400 THEN {"HTTP_400"}
  ELSE IF status = 401 THEN {"HTTP_401"}
  ELSE IF status = 403 THEN {"HTTP_403"}
  ELSE IF status = 404 THEN {"HTTP_404"}
  ELSE IF status = 429 THEN {"HTTP_429"}
  ELSE IF status >= 500 THEN {"HTTP_500", "HTTP_502", "HTTP_503"}
  ELSE {"HTTP_UNKNOWN"}

\* C16: a failure without response is classified TIMEOUT on a timeout,
\* CONNECTION_REFUSED on a refused connection and NETWORK_ERROR otherwise; a
\* response with status 400, 401, 403, 404, 429 gets the code of its status,
\* a status >= 500 a 5xx code and any other status >= 400 HTTP_UNKNOWN, and
\* the error carries the status and the response body
C16_ClassificationTable ==
  \A c \in Clients :
    LET h == http[c]
        o == h.lastOutcome
    IN (h.pc \in {"sleeping", "done"} /\ o.kind = "AxiosError") =>
         /\ ~o.response.present =>
              h.lastError.code =
                (IF o.code = "ECONNABORTED" THEN "TIMEOUT"
                 ELSE IF o.code = "ECONNREFUSED" THEN "CONNECTION_REFUSED"
                 ELSE "NETWORK_ERROR")
         /\ (o.response.present /\ o.response.status >= 400) =>
              /\ h.lastError.code \in StatusClasses(o.response.status)
              /\ h.lastError.statusCode = o.response.status
              /\ h.lastError.details.data = o.response.data


(***************************************************************************)
(* Part 3: the token manager, src/unnamed/part_000, and the UPS adapter,   *)
(* src/src/carriers/ups.ts                                                 *)
(***************************************************************************)
MaxTicks == 3
MaxCalls == 2

\* private readonly tokenRefreshBufferSecs = 30, and the * 1000 of line 89
TokenRefreshBufferSecs == 30
MsPerSec == 1000

\* the expires_in values (seconds) the token endpoint answers with
ExpiresInPool == {0 - 5, 0, 20, 32}

\* TokenResponse; access_token is the identity of the token issued, the
\* index of its entry in tokenInfo, and 0 when the field is missing
NoAccessToken == 0
TokenResponse(access_token, expires_in) ==
  [access_token |-> access_token, expires_in |-> expires_in]
NextToken == Len(tokenInfo) + 1

\* what the token endpoint and the rating endpoint answer in this model
TokenOutcomes ==
  {Ok(TokenResponse(NextToken, e)) : e \in ExpiresInPool}
    \cup {Ok(TokenResponse(NoAccessToken, 32)),
          AxiosError("ERR_BAD_RESPONSE", "status", HttpResponse(401, 1)),
          AxiosError("ERR_BAD_RESPONSE", "status", HttpResponse(429, 1))}

\* a MonetaryValue: an amount, or NoValue for a field that is missing or
\* the empty string
NoValue == 0 - 1

\* an entry of RatedPackage: one with BaseServiceCharge only, one with
\* NegotiatedCharges (DiscountAmount optional: NoValue), one with neither,
\* and one whose NegotiatedCharges lacks the BaseCharge object
BaseLine(amount) ==
  [kind |-> "base", base |-> amount, discount |-> NoValue, total |-> NoValue,
   complete |-> TRUE]
NegotiatedLine(base, discount, total) ==
  [kind |-> "negotiated", base |-> base, discount |-> discount,
   total |-> total, complete |-> TRUE]
EmptyLine ==
  [kind |-> "none", base |-> NoValue, discount |-> NoValue, total |-> NoValue,
   complete |-> TRUE]
BrokenLine ==
  [kind |-> "negotiated", base |-> NoValue, discount |-> NoValue,
   total |-> 25, complete |-> FALSE]

\* an entry of RatedShipment: Service present or not, Service.Code, and
\* the RatedPackage entries
RatedShipmentWith(hasService, code, lines) ==
  [hasService |-> hasService, code |-> code, lines |-> lines]
RatedShipment(code) == RatedShipmentWith(TRUE, code, <<BaseLine(25)>>)

\* UpsRateResponse: which of RateResponse, Response and ResponseStatus is
\* missing ("none": all present), ResponseStatus.Code and .Description, the
\* RatedShipment entries (absent: <<>>) and the number of Alert entries
StatusDescription(code) == IF code = "0" THEN "Success" ELSE "Failure"
UpsRateResponse(missing, code, shipments, alerts) ==
  [missing |-> missing, code |-> code, description |-> StatusDescription(code),
   shipments |-> shipments, alerts |-> alerts]
UpsPayloads ==
  {UpsRateResponse("none", "0", <<RatedShipment("03")>>, 0),
   UpsRateResponse("none", "0", <<RatedShipment("01"), RatedShipment("65")>>, 1),
   UpsRateResponse("none", "1", <<RatedShipment("03")>>, 0),
   UpsRateResponse("Response", "0", <<>>, 0)}
RatingOutcomes ==
  {Ok(p) : p \in UpsPayloads}
    \cup {AxiosError("ERR_BAD_RESPONSE", "status", HttpResponse(400, 1)),
          AxiosError("ERR_BAD_RESPONSE", "status", HttpResponse(429, 1))}

\* CachedToken
CachedToken(token, expiresAt) ==
  [present |-> TRUE, token |-> token, expiresAt |-> expiresAt]

\* fetchToken, line 89: Date.now() + (expires_in - buffer) * 1000
ExpiresAt(expires_in, t) ==
  t + (expires_in - TokenRefreshBufferSecs) * MsPerSec

\* a test that still serves the entry at the instant of its expiry
CacheValidAtExpiry(cached, t) == cached.present /\ cached.expiresAt >= t

\* getToken, line 52: cached && cached.expiresAt > Date.now()
CacheValid(cached, t) == cached.present /\ cached.expiresAt > t

\* the catch clause of fetchToken
FetchTokenCatch(error) ==
  IF IsCarrierIntegrationError(error) THEN error
  ELSE IF IsError(error) THEN
    CarrierIntegrationErrorWith("AUTH_FAILED", "Failed to acquire OAuth2 token: "
                                  \o error.message, Original(error))
  ELSE CarrierIntegrationErrorWith("AUTH_FAILED", "Failed to acquire OAuth2 token",
                                   NoOptions)

\* a catch clause that rethrows whatever it caught
UpsGetRatesCatchRethrows(error) == error

\* the catch clause of UpsCarrier.getRates
UpsGetRatesCatch(error) ==
  IF IsCarrierIntegrationError(error) THEN error
  ELSE IF IsError(error) THEN
    CarrierIntegrationErrorWith("INVALID_REQUEST", error.message, Original(error))
  ELSE CarrierIntegrationErrorWith("UNKNOWN", "Unknown error during rate request",
                                   NoOptions)

\* BaseCarrier.validateAddress, validatePackage and validateRequest: the
\* Error thrown, or NoError
validateAddress(address) ==
  IF \E f \in AddressFields : address[f] = 0
  THEN Fault("Error", Absent, "Invalid address: missing required fields", NoResponse)
  ELSE NoError
\* a validatePackage that lets a dimension or weight of 0 pass
validatePackageAllowsZero(pkg) ==
  IF \E f \in PackageFields : pkg[f] < 0
  THEN Fault("Error", Absent,
             "Invalid package: all dimensions and weight must be positive",
             NoResponse)
  ELSE NoError
validatePackage(pkg) ==
  IF \E f \in PackageFields : pkg[f] <= 0
  THEN Fault("Error", Absent,
             "Invalid package: all dimensions and weight must be positive",
             NoResponse)
  ELSE NoError
validateRequest(req) ==
  IF validateAddress(req.origin).kind # "undefined"
    THEN validateAddress(req.origin)
  ELSE IF validateAddress(req.destination).kind # "undefined"
    THEN validateAddress(req.destination)
  ELSE IF Len(req.packages) = 0
    THEN Fault("Error", Absent, "At least one package must be provided", NoResponse)
  ELSE IF \E i \in 1..Len(req.packages) :
            validatePackage(req.packages[i]).kind # "undefined"
    THEN validatePackage(
           req.packages[CHOOSE i \in 1..Len(req.packages) :
             /\ validatePackage(req.packages[i]).kind # "undefined"
             /\ \A j \in 1..(i - 1) :
                  validatePackage(req.packages[j]).kind = "undefined"])
  ELSE NoError

\* the requests the adapter is called with
UpsRequests ==
  {BaseRequest,
   [BaseRequest EXCEPT !.packages = <<>>],
   [BaseRequest EXCEPT !.origin = [BaseAddress EXCEPT !.city = 0]],
   [BaseRequest EXCEPT !.destination = [BaseAddress EXCEPT !.country = 0]],
   [BaseRequest EXCEPT !.packages =
      <<BasePackage, [BasePackage EXCEPT !.weight = 0]>>],
   [BaseRequest EXCEPT !.packages = <<[BasePackage EXCEPT !.length = 0 - 1]>>]}

\* names every object inherits from Object.prototype
ObjectPrototypeKeys ==
  {"constructor", "toString", "valueOf", "hasOwnProperty", "__proto__"}

\* UPS_SERVICE_CODE_MAP[serviceCode]: the entry of the table, "inherited"
\* (a value that is no ServiceLevel, and truthy) for a name the object
\* literal inherits, "undefined" otherwise
UPS_SERVICE_CODE_MAP(serviceCode) ==
  CASE serviceCode = "01" -> "OVERNIGHT"
    [] serviceCode = "02" -> "TWO_DAY"
    [] serviceCode = "03" -> "GROUND"
    [] serviceCode = "12" -> "OVERNIGHT"
    [] serviceCode = "13" -> "EXPRESS"
    [] serviceCode = "14" -> "EXPRESS"
    [] serviceCode \in ObjectPrototypeKeys -> "inherited"
    [] OTHER -> "undefined"

\* parseFloat(value || '0') of a MonetaryValue
ParseFloatOrZero(value) == IF value = NoValue THEN 0 ELSE value

\* a loop that adds a base-only line to the base charge alone
RECURSIVE SumLinesBaseSkipsFinal(_, _, _)
SumLinesBaseSkipsFinal(lines, i, acc) ==
  IF i > Len(lines) THEN acc
  ELSE LET pkg == lines[i] IN
       IF pkg.kind = "negotiated" THEN
         IF ~pkg.complete THEN [acc EXCEPT !.threw = TRUE]
         ELSE SumLinesBaseSkipsFinal(lines, i + 1,
                [acc EXCEPT
                   !.totalBaseCharge = @ + ParseFloatOrZero(pkg.base),
                   !.totalDiscountAmount = @ + ParseFloatOrZero(pkg.discount),
                   !.finalCharge = @ + ParseFloatOrZero(pkg.total)])
       ELSE IF pkg.kind = "base" THEN
         SumLinesBaseSkipsFinal(lines, i + 1,
                [acc EXCEPT !.totalBaseCharge = @ + ParseFloatOrZero(pkg.base)])
       ELSE SumLinesBaseSkipsFinal(lines, i + 1, acc)

\* the loop of parseRatedShipment over RatedPackage, lines 300-311; a
\* NegotiatedCharges without BaseCharge makes line 303 throw a TypeError
RECURSIVE SumLines(_, _, _)
SumLines(lines, i, acc) ==
  IF i > Len(lines) THEN acc
  ELSE LET pkg == lines[i] IN
       IF pkg.kind = "negotiated" THEN
         IF ~pkg.complete THEN [acc EXCEPT !.threw = TRUE]
         ELSE SumLines(lines, i + 1,
                [acc EXCEPT
                   !.totalBaseCharge = @ + ParseFloatOrZero(pkg.base),
                   !.totalDiscountAmount = @ + ParseFloatOrZero(pkg.discount),
                   !.finalCharge = @ + ParseFloatOrZero(pkg.total)])
       ELSE IF pkg.kind = "base" THEN
         SumLines(lines, i + 1,
                [acc EXCEPT
                   !.totalBaseCharge = @ + ParseFloatOrZero(pkg.base),
                   !.finalCharge = @ + ParseFloatOrZero(pkg.base)])
       ELSE SumLines(lines, i + 1, acc)

\* a parseRatedShipment that takes the charges of the first RatedPackage only
parseRatedShipmentFirstPackage(shipment) ==
  IF ~shipment.hasService THEN [threw |-> TRUE]
  ELSE LET looked == UPS_SERVICE_CODE_MAP(shipment.code)
           serviceLevel == IF looked = "undefined" THEN "GROUND" ELSE looked
           sums == SumLines(IF shipment.lines = <<>> THEN <<>>
                            ELSE <<Head(shipment.lines)>>, 1,
                            [threw |-> FALSE, totalBaseCharge |-> 0,
                             totalDiscountAmount |-> 0, finalCharge |-> 0])
       IN IF sums.threw THEN [threw |-> TRUE]
          ELSE [threw |-> FALSE,
                quote |-> [carrier |-> "ups", serviceLevel |-> serviceLevel,
                           baseCharge |-> sums.totalBaseCharge,
                           hasDiscount |-> sums.totalDiscountAmount > 0,
                           discountAmount |->
                             IF sums.totalDiscountAmount > 0
                             THEN sums.totalDiscountAmount ELSE NoValue,
                           finalCharge |-> sums.finalCharge,
                           currency |-> "USD"]]

\* UpsCarrier.parseRatedShipment: the quote, or threw when it throws (no
\* Service object at line 291, or a line that throws). discountAmount is
\* absent (hasDiscount FALSE) unless the summed discount is positive
parseRatedShipment(shipment) ==
  IF ~shipment.hasService THEN [threw |-> TRUE]
  ELSE LET looked == UPS_SERVICE_CODE_MAP(shipment.code)
           serviceLevel == IF looked = "undefined" THEN "GROUND" ELSE looked
           sums == SumLines(shipment.lines, 1,
                            [threw |-> FALSE, totalBaseCharge |-> 0,
                             totalDiscountAmount |-> 0, finalCharge |-> 0])
       IN IF sums.threw THEN [threw |-> TRUE]
          ELSE [threw |-> FALSE,
                quote |-> [carrier |-> "ups", serviceLevel |-> serviceLevel,
                           baseCharge |-> sums.totalBaseCharge,
                           hasDiscount |-> sums.totalDiscountAmount > 0,
                           discountAmount |->
                             IF sums.totalDiscountAmount > 0
                             THEN sums.totalDiscountAmount ELSE NoValue,
                           finalCharge |-> sums.finalCharge,
                           currency |-> "USD"]]

\* the loop of parseUpsResponse over RatedShipment. An entry that makes
\* parseRatedShipment throw is skipped by the catch clause, whose log line
\* reads shipment.Service.Code: without Service it throws a TypeError itself
RECURSIVE ParseShipments(_, _, _)
ParseShipments(shipments, i, quotes) ==
  IF i > Len(shipments) THEN [threw |-> FALSE, quotes |-> quotes]
  ELSE LET parsed == parseRatedShipment(shipments[i]) IN
       IF ~parsed.threw
       THEN ParseShipments(shipments, i + 1, Append(quotes, parsed.quote))
       ELSE IF ~shipments[i].hasService
         THEN [threw |-> TRUE, quotes |-> quotes]
         ELSE ParseShipments(shipments, i + 1, quotes)

\* the TypeError of a property read on undefined
TypeErrorOnUndefined ==
  Fault("Error", Absent, "Cannot read properties of undefined", NoResponse)

\* a parseUpsResponse that does not look at ResponseStatus.Code
parseUpsResponseIgnoresStatus(upsResponse) ==
  IF upsResponse.missing = "RateResponse" THEN Rejects(TypeErrorOnUndefined)
  ELSE IF upsResponse.missing = "Response" THEN
    Rejects(CarrierIntegrationErrorWith("INVALID_RESPONSE",
                                        "Invalid UPS response structure", NoOptions))
  ELSE IF upsResponse.missing = "ResponseStatus" THEN
    Rejects(TypeErrorOnUndefined)
  ELSE LET parsed == ParseShipments(upsResponse.shipments, 1, <<>>)
       IN IF parsed.threw
          THEN Rejects(TypeErrorOnUndefined)
          ELSE Resolves(Response(parsed.quotes, upsResponse.alerts > 0, <<>>))

\* UpsCarrier.parseUpsResponse: what it returns, or what it throws
parseUpsResponse(upsResponse) ==
  IF upsResponse.missing = "RateResponse" THEN Rejects(TypeErrorOnUndefined)
  ELSE IF upsResponse.missing = "Response" THEN
    Rejects(CarrierIntegrationErrorWith("INVALID_RESPONSE",
                                        "Invalid UPS response structure", NoOptions))
  ELSE IF upsResponse.missing = "ResponseStatus" THEN
    Rejects(TypeErrorOnUndefined)
  ELSE IF upsResponse.code # "0" THEN
    Rejects(CarrierIntegrationErrorWith(
              "INVALID_RESPONSE", "UPS API error: " \o upsResponse.description,
              [details |-> [code |-> upsResponse.code,
                            description |-> upsResponse.description],
               statusCode |-> NoStatus, originalError |-> NoError]))
  ELSE LET parsed == ParseShipments(upsResponse.shipments, 1, <<>>)
       IN IF parsed.threw
          THEN Rejects(TypeErrorOnUndefined)
          ELSE Resolves(Response(parsed.quotes, upsResponse.alerts > 0, <<>>))

\* how UpsCarrier.getRates ends once parseUpsResponse or the request ended
UpsOutcome(r) ==
  IF r.kind = "resolved" THEN r ELSE Rejects(UpsGetRatesCatch(r.error))

\* UpsCarrier.getRates up to its first await that leaves the process:
\* validation, then getToken, which returns the cached token (and the
\* rating request goes out) or starts a token exchange
UpsGetRates(req) ==
  /\ ups.pc = "idle"
  /\ ups.calls < MaxCalls
  /\ IF validateRequest(req).kind # "undefined" THEN
       /\ ups' = [ups EXCEPT !.pc = "done",
                             !.result = Rejects(UpsGetRatesCatch(validateRequest(req)))]
       /\ UNCHANGED <<http, exchanges>>
     ELSE IF CacheValid(cache, now) THEN
       /\ ups' = [ups EXCEPT !.pc = "rating", !.asked = TRUE, !.snap = cache,
                             !.snapNow = now, !.fromCache = TRUE,
                             !.token = cache.token, !.tokenAt = now]
       /\ http' = [http EXCEPT !["rating"] =
            requestWithRetry(setAuthHeader(@, cache.token), "POST",
                             "/rating/v2/shop/rates", NoAuth)]
       /\ UNCHANGED exchanges
     ELSE
       /\ ups' = [ups EXCEPT !.pc = "token", !.asked = TRUE, !.snap = cache,
                             !.snapNow = now, !.exchanged = @ + 1]
       /\ http' = [http EXCEPT !["token"] =
            requestWithRetry(@, "POST", "/security/v1/oauth/token", BasicAuth)]
       /\ exchanges' = exchanges + 1
  /\ UNCHANGED <<orchVars, configVars, now, cache, tokenInfo>>

\* a getRates that goes on to the rating request when getToken failed
FetchTokenResumeRatesAnyway ==
  /\ ups.pc = "token"
  /\ http["token"].pc = "done"
  /\ LET r == http["token"].result
         got == r.kind = "resolved" /\ r.value.access_token # NoAccessToken
         token == IF got THEN r.value.access_token ELSE 0
     IN /\ IF got
           THEN /\ cache' = CachedToken(token, ExpiresAt(r.value.expires_in, now))
                /\ tokenInfo' = Append(tokenInfo,
                                       [obtainedAt |-> now,
                                        expires_in |-> r.value.expires_in])
           ELSE UNCHANGED <<cache, tokenInfo>>
        /\ ups' = [ups EXCEPT !.pc = "rating", !.token = token, !.tokenAt = now]
        /\ http' = [http EXCEPT
             !["token"] = Released(@),
             !["rating"] =
               requestWithRetry(IF got THEN setAuthHeader(@, token) ELSE @,
                                "POST", "/rating/v2/shop/rates", NoAuth)]
  /\ UNCHANGED <<orchVars, configVars, now, exchanges>>

\* a fetchToken that removes the cache entry when the exchange fails
FetchTokenResumeDropsEntry ==
  /\ ups.pc = "token"
  /\ http["token"].pc = "done"
  /\ LET r == http["token"].result IN
     IF r.kind = "resolved" /\ r.value.access_token # NoAccessToken THEN
       /\ cache' = CachedToken(r.value.access_token,
                               ExpiresAt(r.value.expires_in, now))
       /\ tokenInfo' = Append(tokenInfo, [obtainedAt |-> now,
                                          expires_in |-> r.value.expires_in])
       /\ ups' = [ups EXCEPT !.pc = "rating", !.token = r.value.access_token,
                             !.tokenAt = now]
       /\ http' = [http EXCEPT
            !["token"] = Released(@),
            !["rating"] =
              requestWithRetry(setAuthHeader(@, r.value.access_token), "POST",
                               "/rating/v2/shop/rates", NoAuth)]
     ELSE
       LET error ==
             IF r.kind = "resolved"
             THEN CarrierIntegrationErrorWith(
                    "INVALID_RESPONSE", "Token response missing access_token",
                    NoOptions)
             ELSE r.error
       IN /\ ups' = [ups EXCEPT !.pc = "done",
                       !.result = Rejects(UpsGetRatesCatch(FetchTokenCatch(error)))]
          /\ http' = [http EXCEPT !["token"] = Released(@)]
          /\ cache' = NoEntry
          /\ UNCHANGED tokenInfo
  /\ UNCHANGED <<orchVars, configVars, now, exchanges>>

\* fetchToken after its await, and getRates up to the rating request
FetchTokenResume ==
  /\ ups.pc = "token"
  /\ http["token"].pc = "done"
  /\ LET r == http["token"].result IN
     IF r.kind = "resolved" /\ r.value.access_token # NoAccessToken THEN
       LET expiresAt == ExpiresAt(r.value.expires_in, now)
       IN /\ cache' = CachedToken(r.value.access_token, expiresAt)
          /\ tokenInfo' = Append(tokenInfo, [obtainedAt |-> now,
                                             expires_in |-> r.value.expires_in])
          /\ ups' = [ups EXCEPT !.pc = "rating", !.token = r.value.access_token,
                                !.tokenAt = now]
          /\ http' = [http EXCEPT
               !["token"] = Released(@),
               !["rating"] =
                 requestWithRetry(setAuthHeader(@, r.value.access_token), "POST",
                                  "/rating/v2/shop/rates", NoAuth)]
     ELSE
       LET error ==
             IF r.kind = "resolved"
             THEN CarrierIntegrationErrorWith(
                    "INVALID_RESPONSE", "Token response missing access_token",
                    NoOptions)
             ELSE r.error
       IN /\ ups' = [ups EXCEPT !.pc = "done",
                       !.result = Rejects(UpsGetRatesCatch(FetchTokenCatch(error)))]
          /\ http' = [http EXCEPT !["token"] = Released(@)]
          /\ UNCHANGED <<cache, tokenInfo>>
  /\ UNCHANGED <<orchVars, configVars, now, exchanges>>

\* getRates after the await of the rating request
UpsGetRatesResume ==
  /\ ups.pc = "rating"
  /\ http["rating"].pc = "done"
  /\ LET r == http["rating"].result IN
     ups' = [ups EXCEPT !.pc = "done",
               !.result = UpsOutcome(IF r.kind = "resolved"
                                     THEN parseUpsResponse(r.value) ELSE r)]
  /\ UNCHANGED <<orchVars, configVars, http, now, cache, tokenInfo, exchanges>>

\* the caller receives the result of getRates
UpsReturn ==
  /\ ups.pc = "done"
  /\ ups' = [IdleUps EXCEPT !.calls = ups.calls + 1]
  /\ http' = [c \in Clients |-> Released(http[c])]
  /\ UNCHANGED <<orchVars, configVars, now, cache, tokenInfo, exchanges>>

\* a clearCache that leaves the entry in the cache
ClearCacheKeepsEntry ==
  /\ cache.present
  /\ cache' = cache
  /\ ups' = [ups EXCEPT !.cleared = IF ups.pc = "idle" THEN cache.token ELSE @]
  /\ UNCHANGED <<orchVars, configVars, http, now, tokenInfo, exchanges>>

\* OAuth2TokenManager.clearCache; ups.cleared records the call
ClearCache ==
  /\ cache.present
  /\ cache' = NoEntry
  /\ ups' = [ups EXCEPT !.cleared = IF ups.pc = "idle" THEN cache.token ELSE @]
  /\ UNCHANGED <<orchVars, configVars, http, now, tokenInfo, exchanges>>

\* an attempt of the token exchange or of the rating request settles
UpsSettle(c, o) ==
  /\ ups.pc = (IF c = "token" THEN "token" ELSE "rating")
  /\ AttemptSettles(c, o)
  /\ UNCHANGED <<orchVars, configVars, upsVars>>
UpsWake(c) ==
  /\ Wake(c)
  /\ UNCHANGED <<orchVars, configVars, upsVars>>

\* a second passes; a result that is ready is delivered before time moves
Tick ==
  /\ now + MsPerSec <= MaxTicks * MsPerSec
  /\ ~(ups.pc = "token" /\ http["token"].pc = "done")
  /\ ~(ups.pc = "rating" /\ http["rating"].pc = "done")
  /\ ups.pc # "done"
  /\ now' = now + MsPerSec
  /\ UNCHANGED <<orchVars, configVars, http, cache, tokenInfo, exchanges, ups>>

NextUps ==
  \/ \E req \in UpsRequests : UpsGetRates(req)
  \/ FetchTokenResume
  \/ UpsGetRatesResume
  \/ UpsReturn
  \/ ClearCache
  \/ \E o \in TokenOutcomes : UpsSettle("token", o)
  \/ \E o \in RatingOutcomes : UpsSettle("rating", o)
  \/ \E c \in Clients : UpsWake(c)
  \/ Tick

SpecUps == Init /\ [][NextUps]_vars


(***************************************************************************)
(* Properties of the UPS adapter and the token manager                     *)
(***************************************************************************)
\* what CarrierIntegrationService.getRates returns for a valid request when
\* the UPS adapter is the one registered adapter and its call ended with r
ServiceView(r) ==
  LET settled == IF r.kind = "resolved" THEN Fulfilled(r.value)
                 ELSE Rejected(r.error)
      agg == Aggregate(<<settled>>)
  IN RateResponse(agg.allQuotes, agg.errors)

\* an HTTP 200 answer of the rating endpoint that reports success
SuccessfulAnswer(o) ==
  o.kind = "ok" /\ o.data.missing = "none" /\ o.data.code = "0"

\* carrier and service level of the quotes of such an answer, one per rated
\* shipment (codes outside the table give GROUND)
TableLevel(code) ==
  IF code \in {"01", "12"} THEN "OVERNIGHT"
  ELSE IF code = "02" THEN "TWO_DAY"
  ELSE IF code \in {"13", "14"} THEN "EXPRESS"
  ELSE "GROUND"
QuotesOfAnswer(payload) ==
  [i \in 1..Len(payload.shipments) |->
     [carrier |-> "ups", serviceLevel |-> TableLevel(payload.shipments[i].code)]]
CarrierAndLevel(quotes) ==
  [i \in 1..Len(quotes) |->
     [carrier |-> quotes[i].carrier, serviceLevel |-> quotes[i].serviceLevel]]

\* C17: when the rating endpoint answers with fewer than retryAttempts
\* retryable failures and then HTTP 200, getRates returns the quotes of
\* that answer and no errors field; when it answers HTTP 400, exactly one
\* rating request is made and the adapter fails
C17_RetriesInvisibleBadRequestFinal ==
  LET h == http["rating"] IN
  /\ ( /\ Len(h.log) > 0
       /\ Len(h.log) < retryAttempts
       /\ \A i \in 1..Len(h.log) : h.log[i] \in RetryableClasses )
       => h.pc \in {"sleeping", "inflight"}
  /\ ( /\ ups.pc = "done"
       /\ ups.token # 0
       /\ Len(h.log) > 0
       /\ h.log[Len(h.log)] = "OK"
       /\ SuccessfulAnswer(h.lastOutcome) )
       => /\ ups.result.kind = "resolved"
          /\ CarrierAndLevel(ServiceView(ups.result).quotes)
               = QuotesOfAnswer(h.lastOutcome.data)
          /\ ~ServiceView(ups.result).hasErrors
          /\ ServiceView(ups.result).errors = <<>>
  /\ (Len(h.log) > 0 /\ h.log[1] = "HTTP_400")
       => /\ Len(h.log) = 1
          /\ h.pc = "done"
          /\ Len(h.slept) = 0
          /\ ups.pc = "done"
               => /\ ups.result.kind = "rejected"
                  /\ ups.result.error.code = "HTTP_400"
C17_Witness ==
  /\ ups.pc = "done"
  /\ http["rating"].log = <<"HTTP_429", "OK">>
  /\ ups.result.kind = "resolved"
  /\ Len(ServiceView(ups.result).quotes) = 2

\* when the buffered lifetime of an issued token ends: the time it was
\* cached + (expires_in - 30 s)
BufferedExpiry(token) ==
  tokenInfo[token].obtainedAt
    + (tokenInfo[token].expires_in - TokenRefreshBufferSecs) * MsPerSec

\* C18: getToken returns the cached token, without a token-endpoint call,
\* exactly when an entry exists whose expiresAt (time cached +
\* (expires_in - 30 s)) is strictly later than now; so sequential rate
\* requests within the buffered lifetime of the cached token add no
\* token-endpoint call to the one that obtained it
C18_CachedTokenExactlyWhenFresh ==
  /\ cache.present => cache.expiresAt = BufferedExpiry(cache.token)
  /\ ups.asked =>
       /\ ups.fromCache <=> (ups.snap.present /\ ups.snap.expiresAt > ups.snapNow)
       /\ ups.fromCache =>
            /\ ups.exchanged = 0
            /\ ups.token = ups.snap.token
            /\ ups.snapNow < BufferedExpiry(ups.token)
            /\ http["token"].pc = "idle"
            /\ Len(http["token"].log) = 0
       /\ ~ups.fromCache => ups.exchanged = 1
  /\ exchanges <= ups.calls + ups.exchanged
  /\ Len(tokenInfo) <= exchanges
C18_Witness ==
  /\ ups.calls = 1
  /\ ups.pc = "done"
  /\ ups.fromCache
  /\ ups.token = 1
  /\ ups.result.kind = "resolved"
  /\ exchanges = 1

\* the rate request in progress found the cached token at or past its
\* buffered expiry
FoundExpired ==
  ups.asked /\ ups.snap.present /\ ups.snap.expiresAt <= ups.snapNow

\* C19: a rate request that finds the cached token at or past its buffered
\* expiry makes exactly one token exchange; the exchange replaces the cache
\* entry by the new token and its new expiry, and the rating request goes
\* out with the new token as bearer
C19_RefreshReplacesTokenAndBearer ==
  /\ [](FoundExpired =>
          /\ ~ups.fromCache
          /\ ups.exchanged = 1
          /\ ups.token # 0 =>
               /\ ups.token # ups.snap.token
               /\ ups.tokenAt >= ups.snapNow
               /\ http["rating"].auth = Bearer(ups.token)
               /\ ups.pc \in {"rating", "done"}
                    => http["rating"].sent = Bearer(ups.token))
  /\ [][(ups.pc = "token" /\ ups'.pc = "rating") =>
          /\ cache' = CachedToken(ups'.token,
                                  now + (http["token"].lastOutcome.data.expires_in
                                           - TokenRefreshBufferSecs) * MsPerSec)
          /\ ups'.token = http["token"].lastOutcome.data.access_token
          /\ cache.present => cache'.token # cache.token]_vars
C19_Witness ==
  /\ FoundExpired
  /\ ups.pc = "done"
  /\ ups.token = 2
  /\ ups.snap.token = 1
  /\ cache.present
  /\ cache.token = 2
  /\ http["rating"].sent = Bearer(2)
  /\ ups.result.kind = "resolved"

\* C20: a token getToken returns at time t has an actual expiry (time it
\* was obtained + expires_in) later than t, whatever expires_in the token
\* endpoint answered with
C20_NeverServesExpiredToken ==
  ups.token # 0 =>
    tokenInfo[ups.token].obtainedAt
      + tokenInfo[ups.token].expires_in * MsPerSec > ups.tokenAt

(***************************************************************************)
(* Further properties of the token manager                                 *)
(***************************************************************************)
\* the rate request in progress ended because getToken failed
GetTokenFailed == ups.pc = "done" /\ ups.asked /\ ups.token = 0

\* C21: getToken fails with the AUTH_FAILED code when the token endpoint
\* returns an HTTP error, when the token request times out or fails at
\* network level, and when the payload lacks the access-token field; the
\* transport error is kept as context of that error
C21_TokenFailureIsAuthFailed ==
  GetTokenFailed =>
    /\ ups.result.kind = "rejected"
    /\ ups.result.error.code = "AUTH_FAILED"

NumCallers == 2
Callers == 1..NumCallers

\* what the token endpoint answers to the exchange of caller k; the token
\* issued to that exchange is identified by k
ConcTokenOutcomes(k) ==
  {Ok(TokenResponse(k, e)) : e \in {0, 32}}
    \cup {Ok(TokenResponse(NoAccessToken, 32)),
          AxiosError("ERR_BAD_RESPONSE", "status", HttpResponse(429, 1))}

InitConc ==
  /\ carriers = <<>>
  /\ pc = "idle"
  /\ op = "none"
  /\ request = NoRequest
  /\ carrierName = Absent
  /\ targets = <<>>
  /\ outcome = <<>>
  /\ completion = <<>>
  /\ invoked = <<>>
  /\ result = NoResult
  /\ regOrder = <<>>
  /\ lastReg = [n \in NameSet |-> NoCarrier]
  /\ rereg = {}
  /\ heldAtCall = <<>>
  /\ retryAttempts = DefaultRetryAttempts
  /\ retryDelayMs = DefaultRetryDelayMs
  /\ http = [k \in Callers |-> IdleClient]
  /\ now = 0
  /\ cache = NoEntry
  /\ tokenInfo = <<>>
  /\ exchanges = 0
  /\ ups = [k \in Callers |-> IdleUps]

\* OAuth2TokenManager.getToken up to its await: the cached token is
\* returned, or fetchToken starts an exchange
GetToken(k) ==
  /\ ups[k].pc = "idle"
  /\ IF CacheValid(cache, now) THEN
       /\ ups' = [ups EXCEPT ![k] =
            [@ EXCEPT !.pc = "done", !.asked = TRUE, !.snap = cache,
                      !.snapNow = now, !.fromCache = TRUE,
                      !.token = cache.token, !.tokenAt = now,
                      !.result = Resolves(cache.token)]]
       /\ UNCHANGED <<http, exchanges>>
     ELSE
       /\ ups' = [ups EXCEPT ![k] =
            [@ EXCEPT !.pc = "token", !.asked = TRUE, !.snap = cache,
                      !.snapNow = now, !.exchanged = @ + 1]]
       /\ http' = [http EXCEPT ![k] =
            requestWithRetry(@, "POST", "/security/v1/oauth/token", BasicAuth)]
       /\ exchanges' = exchanges + 1
  /\ UNCHANGED <<orchVars, configVars, now, cache, tokenInfo>>

\* fetchToken of caller k after its await, and the return of getToken
GetTokenResume(k) ==
  /\ ups[k].pc = "token"
  /\ http[k].pc = "done"
  /\ LET r == http[k].result IN
     IF r.kind = "resolved" /\ r.value.access_token # NoAccessToken THEN
       /\ cache' = CachedToken(r.value.access_token,
                               ExpiresAt(r.value.expires_in, now))
       /\ tokenInfo' = Append(tokenInfo, [obtainedAt |-> now,
                                          expires_in |-> r.value.expires_in])
       /\ ups' = [ups EXCEPT ![k] =
            [@ EXCEPT !.pc = "done", !.token = r.value.access_token,
                      !.tokenAt = now,
                      !.result = Resolves(r.value.access_token)]]
     ELSE
       LET error ==
             IF r.kind = "resolved"
             THEN CarrierIntegrationErrorWith(
                    "INVALID_RESPONSE", "Token response missing access_token",
                    NoOptions)
             ELSE r.error
       IN /\ ups' = [ups EXCEPT ![k] =
               [@ EXCEPT !.pc = "done", !.result = Rejects(FetchTokenCatch(error))]]
          /\ UNCHANGED <<cache, tokenInfo>>
  /\ http' = [http EXCEPT ![k] = Released(@)]
  /\ UNCHANGED <<orchVars, configVars, now, exchanges>>

ConcSettle(k, o) ==
  /\ ups[k].pc = "token"
  /\ AttemptSettles(k, o)
  /\ UNCHANGED <<orchVars, configVars, upsVars>>
ConcWake(k) ==
  /\ Wake(k)
  /\ UNCHANGED <<orchVars, configVars, upsVars>>

NextConc ==
  \/ \E k \in Callers : GetToken(k)
  \/ \E k \in Callers : GetTokenResume(k)
  \/ \E k \in Callers : \E o \in ConcTokenOutcomes(k) : ConcSettle(k, o)
  \/ \E k \in Callers : ConcWake(k)

SpecConc == InitConc /\ [][NextConc]_vars

\* the callers whose token exchange is in flight
Exchanging == {k \in Callers : ups[k].pc = "token"}

\* C23: when getToken calls on one token manager overlap while the cache
\* is empty or expired, at most one token exchange is issued
C23_SingleFlightExchange == Cardinality(Exchanging) <= 1

(***************************************************************************)
(* UpsCarrier.parseUpsResponse on its own: getRates resumes from the await *)
(* of the rating request with any HTTP 200 payload                         *)
(***************************************************************************)
MaxShipments == 2
MaxLines == 2
MaxAlerts == 1

\* the HTTP 200 payloads of the rating endpoint: status code "0" or "1",
\* with and without alerts, over lists of up to MaxShipments rated shipments
\* (one plain, one negotiated, one with a line that lacks its charge
\* object, one without Service), single shipments over every list of up to
\* MaxLines lines and over every Service.Code of the pool; and the payloads
\* that lack RateResponse, Response or ResponseStatus
ParsePayloads ==
  LET LinePool ==
        {BaseLine(15), BaseLine(10), NegotiatedLine(30, 5, 25),
         NegotiatedLine(30, 5, 26), NegotiatedLine(30, NoValue, 25),
         NegotiatedLine(10, NoValue, 10), EmptyLine, BrokenLine}
      LineLists == UNION {[1..n -> LinePool] : n \in 0..MaxLines}
      ServiceCodes ==
        {"01", "02", "03", "12", "13", "14", "65", "", "constructor",
         "toString"}
      ShipmentPool ==
        {RatedShipment("03"),
         RatedShipmentWith(TRUE, "01", <<NegotiatedLine(30, 5, 25)>>),
         RatedShipmentWith(TRUE, "13", <<BaseLine(15), BrokenLine>>),
         RatedShipmentWith(FALSE, "", <<BaseLine(10)>>)}
      ShipmentLists ==
        UNION {[1..n -> ShipmentPool] : n \in 0..MaxShipments}
          \cup {<<RatedShipmentWith(TRUE, "03", l)>> : l \in LineLists}
          \cup {<<RatedShipment(c)>> : c \in ServiceCodes}
  IN {UpsRateResponse("none", code, s, a) :
        code \in {"0", "1"}, s \in ShipmentLists, a \in 0..MaxAlerts}
       \cup {UpsRateResponse(m, "0", <<>>, 0) :
               m \in {"RateResponse", "Response", "ResponseStatus"}}

\* getRates at line 157: a token was obtained, the rating request went out
\* with it and was answered HTTP 200 at the first attempt
InitParse ==
  /\ carriers = <<>>
  /\ pc = "idle"
  /\ op = "none"
  /\ request = NoRequest
  /\ carrierName = Absent
  /\ targets = <<>>
  /\ outcome = <<>>
  /\ completion = <<>>
  /\ invoked = <<>>
  /\ result = NoResult
  /\ regOrder = <<>>
  /\ lastReg = [n \in NameSet |-> NoCarrier]
  /\ rereg = {}
  /\ heldAtCall = <<>>
  /\ retryAttempts = DefaultRetryAttempts
  /\ retryDelayMs = DefaultRetryDelayMs
  /\ now = 0
  /\ cache = CachedToken(1, ExpiresAt(32, 0))
  /\ tokenInfo = <<[obtainedAt |-> 0, expires_in |-> 32]>>
  /\ exchanges = 1
  /\ ups = [IdleUps EXCEPT !.pc = "rating", !.asked = TRUE, !.token = 1,
                           !.exchanged = 1]
  /\ \E payload \in ParsePayloads :
       http = [c \in Clients |->
                 IF c = "rating"
                 THEN [requestWithRetry(setAuthHeader(IdleClient, 1), "POST",
                                        "/rating/v2/shop/rates", NoAuth)
                         EXCEPT !.pc = "done", !.log = <<"OK">>,
                                !.lastOutcome = Ok(payload),
                                !.result = Resolves(payload)]
                 ELSE IdleClient]

NextParse ==
  \/ UpsGetRatesResume
  \/ UpsReturn

SpecParse == InitParse /\ [][NextParse]_vars

\* getRates has ended on an HTTP 200 answer of the rating endpoint
Parsed == ups.pc = "done" /\ http["rating"].lastOutcome.kind = "ok"
\* the payload of that answer
Payload == http["rating"].lastOutcome.data

\* C24: when the payload's ResponseStatus.Code is not "0", the adapter fails
\* with INVALID_RESPONSE whose details are that code and its description,
\* whatever rated shipments the payload holds; seen through the service's
\* getRates, that is zero quotes and one error
C24_RejectedStatusGivesNoQuotes ==
  (Parsed /\ Payload.missing = "none" /\ Payload.code # "0") =>
    /\ ups.result.kind = "rejected"
    /\ ups.result.error.kind = "CarrierIntegrationError"
    /\ ups.result.error.code = "INVALID_RESPONSE"
    /\ ups.result.error.details
         = [code |-> Payload.code, description |-> Payload.description]
    /\ ServiceView(ups.result).quotes = <<>>
    /\ Len(ServiceView(ups.result).errors) = 1
    /\ ServiceView(ups.result).errors[1].code = "INVALID_RESPONSE"

C24_Witness ==
  /\ Parsed /\ Payload.missing = "none" /\ Payload.code = "1"
  /\ Len(Payload.shipments) = 2
  /\ \A i \in 1..2 : ~parseRatedShipment(Payload.shipments[i]).threw
  /\ ups.result.kind = "rejected"

\* the codes of the response-parsing kind
ResponseParsingCodes == {"INVALID_RESPONSE", "MALFORMED_JSON"}

\* C25: when the HTTP 200 payload lacks RateResponse, Response or
\* ResponseStatus, the service's getRates returns zero quotes and exactly
\* one error, whose code is INVALID_RESPONSE or MALFORMED_JSON
C25_MalformedPayloadIsParsingError ==
  (Parsed /\ Payload.missing # "none") =>
    /\ ServiceView(ups.result).quotes = <<>>
    /\ Len(ServiceView(ups.result).errors) = 1
    /\ ServiceView(ups.result).errors[1].code \in ResponseParsingCodes

\* what a line contributes to the base, the discount and the final charge
\* of its quote; a missing amount counts as 0
AmountOf(value) == IF value = NoValue THEN 0 ELSE value
LinePart(line, part) ==
  IF part = "base" THEN
    IF line.kind \in {"negotiated", "base"} THEN AmountOf(line.base) ELSE 0
  ELSE IF part = "discount" THEN
    IF line.kind = "negotiated" THEN AmountOf(line.discount) ELSE 0
  ELSE IF line.kind = "negotiated" THEN AmountOf(line.total)
  ELSE IF line.kind = "base" THEN AmountOf(line.base) ELSE 0
RECURSIVE SumOver(_, _)
SumOver(lines, part) ==
  IF lines = <<>> THEN 0
  ELSE LinePart(Head(lines), part) + SumOver(Tail(lines), part)

\* every rated shipment of the payload has a Service object and only lines
\* that hold the charge objects they announce
WellFormed(payload) ==
  \A i \in 1..Len(payload.shipments) :
    /\ payload.shipments[i].hasService
    /\ \A j \in 1..Len(payload.shipments[i].lines) :
         payload.shipments[i].lines[j].complete

\* getRates has ended on a payload that reports success and is well formed
ParsedWellFormed ==
  Parsed /\ Payload.missing = "none" /\ Payload.code = "0" /\ WellFormed(Payload)

\* C26: each rated shipment gives one quote whose baseCharge, discountAmount
\* and finalCharge are the sums over its lines of base, discount and total
\* (negotiated line) or of the amount as base and final (base-only line);
\* discountAmount is present only when the summed discount is above 0.
\* Base lines 15 and 10 give finalCharge 25 without discountAmount; one
\* negotiated line {30, 5, 25} gives 30, 5 and 25
C26_QuoteSumsPackageLines ==
  ParsedWellFormed =>
    /\ ups.result.kind = "resolved"
    /\ Len(ups.result.value.quotes) = Len(Payload.shipments)
    /\ \A i \in 1..Len(Payload.shipments) :
         LET lines == Payload.shipments[i].lines
             quote == ups.result.value.quotes[i]
         IN /\ quote.baseCharge = SumOver(lines, "base")
            /\ quote.finalCharge = SumOver(lines, "final")
            /\ quote.hasDiscount <=> SumOver(lines, "discount") > 0
            /\ quote.hasDiscount =>
                 quote.discountAmount = SumOver(lines, "discount")
            /\ lines = <<BaseLine(15), BaseLine(10)>> =>
                 quote.finalCharge = 25 /\ ~quote.hasDiscount
            /\ lines = <<NegotiatedLine(30, 5, 25)>> =>
                 /\ quote.baseCharge = 30
                 /\ quote.hasDiscount /\ quote.discountAmount = 5
                 /\ quote.finalCharge = 25

C26_Witness ==
  /\ ParsedWellFormed
  /\ Len(Payload.shipments) = 1
  /\ Payload.shipments[1].lines = <<BaseLine(15), NegotiatedLine(30, 5, 25)>>
  /\ ups.result.kind = "resolved"
  /\ ups.result.value.quotes[1].baseCharge = 45
  /\ ups.result.value.quotes[1].discountAmount = 5
  /\ ups.result.value.quotes[1].finalCharge = 40

\* the invariant of RateQuote: finalCharge is baseCharge less the discount
\* when discountAmount is present, and baseCharge when it is absent
QuoteInvariant(quote) ==
  IF quote.hasDiscount
  THEN quote.finalCharge = quote.baseCharge - quote.discountAmount
  ELSE quote.finalCharge = quote.baseCharge

\* the totals the carrier reports agree with its bases and discounts: every
\* negotiated line has total = base - discount, a missing discount being 0
ConsistentLines(lines) ==
  \A j \in 1..Len(lines) :
    lines[j].kind = "negotiated" =>
      AmountOf(lines[j].total)
        = AmountOf(lines[j].base) - AmountOf(lines[j].discount)

\* C27 as stated: every quote the adapter returns satisfies the invariant of
\* RateQuote, whatever lines the carrier returned
C27_EveryQuoteSatisfiesInvariant ==
  (Parsed /\ ups.result.kind = "resolved") =>
    \A i \in 1..Len(ups.result.value.quotes) :
      QuoteInvariant(ups.result.value.quotes[i])

\* C27, amended: the quote of a rated shipment satisfies the invariant of
\* RateQuote when each of its negotiated lines reports a total equal to its
\* base less its discount (discounts not negative); finalCharge is always
\* the sum of the reported totals and base-only amounts
C27_InvariantOnConsistentLines ==
  ParsedWellFormed =>
    \A i \in 1..Len(Payload.shipments) :
      LET lines == Payload.shipments[i].lines
          quote == ups.result.value.quotes[i]
      IN /\ quote.finalCharge = SumOver(lines, "final")
         /\ ConsistentLines(lines) => QuoteInvariant(quote)

C27_Witness ==
  /\ ParsedWellFormed
  /\ Len(Payload.shipments) = 1
  /\ Payload.shipments[1].lines = <<NegotiatedLine(30, 5, 25), BaseLine(10)>>
  /\ ups.result.value.quotes[1].hasDiscount
  /\ ups.result.value.quotes[1].finalCharge = 35
  /\ QuoteInvariant(ups.result.value.quotes[1])

\* the entries of a payload that parseRatedShipment turns into a quote
Parses(shipment) == ~parseRatedShipment(shipment).threw
RECURSIVE QuotesOfParsing(_)
QuotesOfParsing(shipments) ==
  IF shipments = <<>> THEN <<>>
  ELSE IF Parses(Head(shipments))
    THEN <<parseRatedShipment(Head(shipments)).quote>>
           \o QuotesOfParsing(Tail(shipments))
    ELSE QuotesOfParsing(Tail(shipments))

\* C28: on a payload that reports success, an entry that cannot be
\* normalized (no Service object, or a line without an expected charge
\* object) is skipped alone: the adapter succeeds and returns the quotes of
\* the other entries in their order
C28_FailingEntryAloneIsSkipped ==
  (Parsed /\ Payload.missing = "none" /\ Payload.code = "0") =>
    /\ ups.result.kind = "resolved"
    /\ ups.result.value.quotes = QuotesOfParsing(Payload.shipments)

\* the part of C28 the code keeps: an entry with a Service object whose
\* line lacks its charge object is skipped and the others are returned
SkipsEntryWithBrokenLine ==
  (Parsed /\ Payload.missing = "none" /\ Payload.code = "0"
     /\ \A i \in 1..Len(Payload.shipments) : Payload.shipments[i].hasService) =>
    /\ ups.result.kind = "resolved"
    /\ ups.result.value.quotes = QuotesOfParsing(Payload.shipments)

\* C29: the serviceLevel of every quote is a ServiceLevel; a code of the
\* table gives its entry and any other code, the empty one included, GROUND
C29_ServiceLevelInClosedSet ==
  (Parsed /\ ups.result.kind = "resolved") =>
    /\ \A i \in 1..Len(ups.result.value.quotes) :
         ups.result.value.quotes[i].serviceLevel \in ServiceLevel
    /\ ParsedWellFormed =>
         \A i \in 1..Len(Payload.shipments) :
           ups.result.value.quotes[i].serviceLevel
             = TableLevel(Payload.shipments[i].code)

\* the part of C29 the code keeps: codes that name no member of
\* Object.prototype map to their table entry or to GROUND
TableOrGroundOffPrototype ==
  (ParsedWellFormed
     /\ \A i \in 1..Len(Payload.shipments) :
          Payload.shipments[i].code \notin ObjectPrototypeKeys) =>
    \A i \in 1..Len(Payload.shipments) :
      ups.result.value.quotes[i].serviceLevel
        = TableLevel(Payload.shipments[i].code)

\* C30: when a payload that reports success carries alerts, the response
\* the adapter returns holds one informational entry per alert
C30_AlertsAreReturned ==
  (Parsed /\ ups.result.kind = "resolved" /\ Payload.alerts > 0) =>
    /\ ups.result.value.hasErrors
    /\ Len(ups.result.value.errors) = Payload.alerts

\* what the code does with alerts: the response has an errors list exactly
\* when the payload has alerts, and the list is empty
AlertsLeaveEmptyErrors ==
  (Parsed /\ ups.result.kind = "resolved") =>
    /\ ups.result.value.hasErrors <=> Payload.alerts > 0
    /\ ups.result.value.errors = <<>>

(***************************************************************************)
(* Further properties of the orchestrator, the transport client and the    *)
(* UPS adapter                                                             *)
(***************************************************************************)
\* C31: a RateResponse handed to a caller has an errors field only if an
\* adapter failed, and then a non-empty one: the response of getRates, and
\* the data of a successful getRatesFromCarrier result, which is the
\* response of a successful adapter call and so carries no errors field
C31_ErrorsOnlyWhenAdapterFailed ==
  /\ (GetRatesDone /\ result.kind = "resolved") =>
       (result.value.hasErrors =>
          /\ Len(result.value.errors) > 0
          /\ FailedTargets # {})
  /\ (FromCarrierDone /\ result.kind = "resolved" /\ result.value.success) =>
       ~result.value.data.hasErrors

\* the part of C31 the code keeps: the response getRates builds itself
GetRatesErrorsOnlyWhenFailed ==
  (GetRatesDone /\ result.kind = "resolved") =>
    (result.value.hasErrors =>
       /\ Len(result.value.errors) > 0
       /\ FailedTargets # {})

(***************************************************************************)
(* setAuthHeader and clearAuthHeader: two client instances, the one of the *)
(* adapter and the one of the token manager, each with its own axios       *)
(* instance; requests of both run side by side, with or without an         *)
(* Authorization header of their own                                       *)
(***************************************************************************)
MaxTokens == 2

\* HttpClient.clearAuthHeader
clearAuthHeader(h) == [h EXCEPT !.auth = NoAuth]

\* a setAuthHeader that writes the header of a default shared by every
\* instance
SetAuthHeaderOnAll(c, token) ==
  /\ http' = [d \in Clients |-> setAuthHeader(http[d], token)]
  /\ UNCHANGED <<orchVars, configVars, upsVars>>

\* client c's setAuthHeader(token) and clearAuthHeader() are called
SetAuthHeader(c, token) ==
  /\ http' = [http EXCEPT ![c] = setAuthHeader(@, token)]
  /\ UNCHANGED <<orchVars, configVars, upsVars>>
ClearAuthHeader(c) ==
  /\ http' = [http EXCEPT ![c] = clearAuthHeader(@)]
  /\ UNCHANGED <<orchVars, configVars, upsVars>>

\* client c's post is called, with or without a header of the request
AuthPost(c, header) ==
  /\ Post(c, "/rating/v2/shop/rates", header)
  /\ UNCHANGED <<orchVars, configVars, upsVars>>

\* attempts end with a response or with HTTP 429
NextAuth ==
  \/ \E c \in Clients, token \in 1..MaxTokens : SetAuthHeader(c, token)
  \/ \E c \in Clients : ClearAuthHeader(c)
  \/ \E c \in Clients, header \in {NoAuth, BasicAuth} : AuthPost(c, header)
  \/ \E c \in Clients :
       \E o \in {Ok(1), AxiosError("ERR_BAD_RESPONSE", "status",
                                   HttpResponse(429, 1))} : HttpSettle(c, o)
  \/ \E c \in Clients : HttpWake(c)
  \/ \E c \in Clients : HttpReturn(c)

SpecAuth == Init /\ [][NextAuth]_vars

\* this step sends an attempt of client c: the first of a request or a retry
Dispatches(c) ==
  http[c].pc \in {"idle", "sleeping"} /\ http'[c].pc = "inflight"
\* this step changes the Authorization default of client c
ChangesAuth(c) == http'[c].auth # http[c].auth

\* a step that changes the default of c changes nothing else of c and
\* nothing of any other instance; only such a step changes the default
AuthIsClientScoped ==
  \A c \in Clients :
    /\ ChangesAuth(c) =>
         /\ http'[c] = [http[c] EXCEPT !.auth = http'[c].auth]
         /\ \A d \in Clients \ {c} : http'[d] = http[d]
    /\ Dispatches(c) => ~ChangesAuth(c)

\* C32 as stated: setAuthHeader and clearAuthHeader change only their own
\* instance; every attempt that instance sends afterwards, retries
\* included, carries the bearer token set last, and none after
\* clearAuthHeader; other instances are unaffected
C32_EveryRequestCarriesBearer ==
  [][/\ AuthIsClientScoped
     /\ \A c \in Clients :
          Dispatches(c) =>
            IF http[c].auth.scheme = "Bearer"
            THEN http'[c].sent = http[c].auth
            ELSE http'[c].sent.scheme # "Bearer"]_vars

\* C32, amended: the same for the attempts of requests that pass no
\* Authorization header of their own; an attempt of a request that passes
\* one carries that header, whatever was set on the instance
C32_RequestsWithoutOwnHeaderCarryBearer ==
  [][/\ AuthIsClientScoped
     /\ \A c \in Clients :
          Dispatches(c) =>
            IF http'[c].header.scheme # "None"
            THEN http'[c].sent = http'[c].header
            ELSE IF http[c].auth.scheme = "Bearer"
            THEN http'[c].sent = http[c].auth
            ELSE http'[c].sent.scheme = "None"]_vars

\* the second attempt of a request of the adapter's client goes out with
\* the token set while the first was in flight, as the token client sends
\* its Basic header
C32_Witness ==
  /\ http["rating"].pc = "inflight" /\ http["rating"].attempt = 2
  /\ http["rating"].header = NoAuth
  /\ http["rating"].auth = Bearer(2) /\ http["rating"].sent = Bearer(2)
  /\ http["token"].pc = "inflight" /\ http["token"].auth = NoAuth
  /\ http["token"].sent = BasicAuth

\* the request fails the adapter's local checks: an empty required address
\* field, no package, or a package with a dimension or weight that is not
\* positive
FailsLocalChecks(req) ==
  \/ \E f \in AddressFields : req.origin[f] = 0 \/ req.destination[f] = 0
  \/ req.packages = <<>>
  \/ \E i \in 1..Len(req.packages) :
       \E f \in PackageFields : req.packages[i][f] <= 0

\* the messages of the adapter's local checks
ValidationMessages ==
  {"Invalid address: missing required fields",
   "At least one package must be provided",
   "Invalid package: all dimensions and weight must be positive"}

\* C33: the adapter's getRates, called with a request that fails its local
\* checks, fails with a validation error (it does not return a response),
\* and starts no token exchange and no rating request
C33_LocalValidationFailsCall ==
  [][\A req \in UpsRequests :
       (UpsGetRates(req) /\ FailsLocalChecks(req)) =>
         /\ ups'.pc = "done"
         /\ ups'.result.kind = "rejected"
         /\ ups'.result.error.code = "INVALID_REQUEST"
         /\ ups'.result.error.message \in ValidationMessages
         /\ ~ups'.asked /\ ups'.exchanged = 0
         /\ exchanges' = exchanges
         /\ http' = http]_vars

C33_Witness ==
  /\ ups.pc = "done" /\ ~ups.asked
  /\ ups.result.kind = "rejected"
  /\ ups.result.error.message
       = "Invalid package: all dimensions and weight must be positive"
  /\ ups.calls = 1 /\ exchanges = 1
  /\ \A c \in Clients : http[c].pc = "idle"

\* getToken was called in this call and failed
TokenAcquisitionFailed == ups.pc = "done" /\ ups.asked /\ ups.token = 0

\* C34: within one adapter call the order is local validation, token
\* acquisition, installation of the token on the client, rating request:
\* getToken is called only for a request that passed validation, a rating
\* request goes out only once a token was obtained and installed, and when
\* token acquisition fails no rating request goes out and the service's
\* getRates returns no quotes and a non-empty errors list
C34_ValidateThenTokenThenRate ==
  /\ [](/\ http["rating"].pc # "idle" =>
             /\ ups.asked /\ ups.token # 0
             /\ http["rating"].auth = Bearer(ups.token)
             /\ http["rating"].sent = Bearer(ups.token)
        /\ TokenAcquisitionFailed =>
             /\ http["rating"].pc = "idle"
             /\ ups.result.kind = "rejected"
             /\ ServiceView(ups.result).quotes = <<>>
             /\ ServiceView(ups.result).hasErrors
             /\ Len(ServiceView(ups.result).errors) > 0)
  /\ [][/\ \A req \in UpsRequests :
             (UpsGetRates(req) /\ ups'.asked) => ~FailsLocalChecks(req)
        /\ (http["rating"].pc = "idle" /\ http'["rating"].pc # "idle") =>
             /\ ups.asked \/ ups'.asked
             /\ ups'.token # 0
             /\ http'["rating"].auth = Bearer(ups'.token)]_vars

C34_Witness ==
  /\ TokenAcquisitionFailed
  /\ ups.result.kind = "rejected" /\ ups.result.error.code = "HTTP_401"
  /\ http["rating"].pc = "idle" /\ http["rating"].auth = Bearer(1)
  /\ ups.calls = 1

\* C35: getRates, getRatesFromCarrier and getAvailableCarriers leave the
\* registry as it is, whether they succeed or fail: a step changes the
\* registry only by setting the entry of one adapter's name, which is
\* registerCarrier and changes nothing of a call in progress; and between
\* calls the orchestrator holds nothing but the registry
C35_OnlyRegisterChangesRegistry ==
  /\ [](pc = "idle" =>
          /\ op = "none" /\ request = NoRequest /\ carrierName = Absent
          /\ targets = <<>> /\ outcome = <<>> /\ completion = <<>>
          /\ invoked = <<>> /\ result = NoResult)
  /\ [][carriers' # carriers =>
          /\ \E a \in Adapters : carriers' = MapSet(carriers, NameOf(a), a)
          /\ UNCHANGED callVars]_vars
  /\ [][(pc' # pc \/ op' # op \/ outcome' # outcome \/ result' # result) =>
          carriers' = carriers]_vars

\* a getRatesFromCarrier call has failed and a getRates call has rejected
\* with two adapters registered, which are still the two registered
C35_Witness ==
  /\ pc = "done" /\ Len(carriers) = 2 /\ carriers = heldAtCall
  /\ \/ FromCarrierDone /\ result.kind = "resolved" /\ ~result.value.success
     \/ GetRatesDone /\ result.kind = "rejected"

\* what the orchestrator's aggregation makes of n adapters that each ended
\* as r did
ServiceViewOfSame(r, n) ==
  LET settled == IF r.kind = "resolved" THEN Fulfilled(r.value)
                 ELSE Rejected(r.error)
      agg == Aggregate([i \in 1..n |-> settled])
  IN RateResponse(agg.allQuotes, agg.errors)

\* C36: the UPS adapter's getRates rejects only with a
\* CarrierIntegrationError: what its try block throws is rethrown if it is
\* one, wrapped as INVALID_REQUEST with the same message if it is another
\* Error, and as UNKNOWN otherwise; so each failing UPS adapter gives
\* exactly one entry of the orchestrator's errors
C36_RejectsOnlyWithCarrierError ==
  /\ LET thrown == {validateRequest(req) : req \in UpsRequests \ {BaseRequest}}
                     \cup {TypeErrorOnUndefined,
                           Fault("NonError", Absent, Absent, NoResponse),
                           CarrierIntegrationErrorWith("HTTP_401", "Unauthorized",
                                                       NoOptions)}
     IN \A e \in thrown :
          LET wrapped == UpsGetRatesCatch(e) IN
          /\ IsCarrierIntegrationError(wrapped)
          /\ IsCarrierIntegrationError(e) => wrapped = e
          /\ (~IsCarrierIntegrationError(e) /\ IsError(e)) =>
               wrapped.code = "INVALID_REQUEST" /\ wrapped.message = e.message
          /\ ~IsError(e) => wrapped.code = "UNKNOWN"
  /\ (ups.pc = "done" /\ ups.result.kind = "rejected") =>
       /\ IsCarrierIntegrationError(ups.result.error)
       /\ ups.result.error.code \in ErrorCode
       /\ \A n \in 1..NumAdapters :
            /\ Len(ServiceViewOfSame(ups.result, n).errors) = n
            /\ \A i \in 1..n :
                 ServiceViewOfSame(ups.result, n).errors[i].code
                   = ups.result.error.code

\* a call has failed its local validation: the Error was wrapped and is one
\* entry of the errors the service returns
C36_Witness ==
  /\ ups.pc = "done" /\ ups.result.kind = "rejected"
  /\ ups.result.error.code = "INVALID_REQUEST"
  /\ ups.result.error.originalError.kind = "Error"
  /\ Len(ServiceView(ups.result).errors) = 1

\* C37: a token exchange that fails (transport error, or a payload without
\* access_token) leaves the cache entry as it was: the failing step does
\* not write the cache, so after it the cache holds what getToken found
\* (or nothing, if clearCache ran meanwhile), which is no valid entry, and
\* a getToken call that finds no valid entry starts an exchange
C37_FailedExchangeLeavesCache ==
  /\ [](TokenAcquisitionFailed =>
          /\ cache \in {ups.snap, NoEntry}
          /\ ~ups.snap.present => ~cache.present
          /\ ~CacheValid(cache, now))
  /\ [][(ups.pc = "token" /\ ups'.pc = "done") =>
          cache' = cache /\ tokenInfo' = tokenInfo]_vars
  /\ [][(ups.pc = "idle" /\ ups'.asked /\ ~CacheValid(cache, now)) =>
          /\ ups'.pc = "token"
          /\ exchanges' = exchanges + 1
          /\ http'["token"].pc = "inflight"]_vars

\* the second call found the expired entry of the first, its exchange
\* failed, and the expired entry is still there
C37_Witness ==
  /\ TokenAcquisitionFailed
  /\ ups.snap.present /\ cache = ups.snap /\ cache.token = 1
  /\ exchanges = 2

\* C38: every request RateRequestSchema accepts passes
\* BaseCarrier.validateRequest, so the request an adapter is invoked with
\* by getRates or getRatesFromCarrier never fails the adapter's local
\* validation
C38_SchemaAtLeastAsStrict ==
  /\ \A req \in RequestPool :
       RateRequestSchema(req) => validateRequest(req) = NoError
  /\ invoked # <<>> =>
       /\ RateRequestSchema(request)
       /\ validateRequest(request) = NoError
       /\ ~FailsLocalChecks(request)

\* getRatesFromCarrier has invoked an adapter with a request that names a
\* service level; and the adapter's checks alone would also accept a
\* request the schema refuses
C38_Witness ==
  /\ op = "getRatesFromCarrier" /\ pc = "awaiting" /\ Len(invoked) = 1
  /\ request.serviceLevel = "GROUND"
  /\ validateRequest(request) = NoError
  /\ \E req \in RequestPool :
       ~RateRequestSchema(req) /\ validateRequest(req) = NoError

\* C39: getRatesFromCarrier looks the name up before it validates the
\* request: with a request that misses the schema, a name that is not
\* registered gives CARRIER_NOT_FOUND, and a registered name gives a failure
\* result coded UNKNOWN, not INVALID_REQUEST; no adapter is invoked
C39_LookupBeforeValidation ==
  (FromCarrierDone /\ ViolatesCanonicalSchema(request)) =>
    /\ result.kind = "resolved"
    /\ ~result.value.success
    /\ invoked = <<>>
    /\ result.value.error.code =
         (IF MapHas(heldAtCall, carrierName)
          THEN "UNKNOWN" ELSE "CARRIER_NOT_FOUND")

\* a request without packages was refused for a registered carrier
C39_Witness ==
  /\ FromCarrierDone /\ request.packages = <<>>
  /\ MapHas(heldAtCall, carrierName) /\ MapHas(carriers, carrierName)
  /\ result.kind = "resolved" /\ result.value.error.code = "UNKNOWN"

(***************************************************************************)
(* Termination of the adapter's getRates: every attempt in flight ends     *)
(* (with a response, an error or the client's timeout), every timer fires  *)
(* and every continuation whose promise has settled runs                   *)
(***************************************************************************)
\* the steps of the adapter's calls and of their requests, at one instant
\* (no clearCache between the steps, and the clock stands still: the cache
\* serves a token of positive buffered lifetime, any other is exchanged)
NextUpsCalls ==
  \/ \E req \in UpsRequests : UpsGetRates(req)
  \/ FetchTokenResume
  \/ UpsGetRatesResume
  \/ UpsReturn
  \/ \E o \in TokenOutcomes : UpsSettle("token", o)
  \/ \E o \in RatingOutcomes : UpsSettle("rating", o)
  \/ \E c \in Clients : UpsWake(c)

SpecUpsFair ==
  /\ Init /\ [][NextUpsCalls]_vars
  /\ \A c \in Clients :
       /\ WF_vars(\E o \in TokenOutcomes \cup RatingOutcomes : UpsSettle(c, o))
       /\ WF_vars(UpsWake(c))
  /\ WF_vars(FetchTokenResume)
  /\ WF_vars(UpsGetRatesResume)

\* the attempts a client has made for its request in progress
Attempts(c) == Len(http[c].log) + (IF http[c].pc = "inflight" THEN 1 ELSE 0)

\* C40: every getRates call of the adapter settles, after at most
\* retryAttempts attempts at the token endpoint followed by at most
\* retryAttempts attempts at the rating endpoint; what it settles with lets
\* the orchestrator's aggregation return
C40_EveryCallSettles ==
  /\ [](/\ \A c \in Clients : Attempts(c) <= retryAttempts
        /\ http["rating"].pc # "idle" => http["token"].pc = "idle"
        /\ ups.pc = "done" =>
             ~Aggregate(<<IF ups.result.kind = "resolved"
                          THEN Fulfilled(ups.result.value)
                          ELSE Rejected(ups.result.error)>>).threw)
  /\ (ups.pc \in {"token", "rating"}) ~> (ups.pc = "done")

\* a call has settled after retryAttempts attempts at the token endpoint
\* in an earlier call or this one and retryAttempts at the rating endpoint
C40_Witness ==
  /\ ups.pc = "done" /\ ups.exchanged = 1
  /\ Len(http["rating"].log) = retryAttempts
  /\ http["rating"].log[retryAttempts] = "HTTP_429"
  /\ ups.result.kind = "rejected"

====
